---- MODULE Spec2Model ----
(***************************************************************************)
(* Model of the WiiRD / Gecko code-list decoder of brawllib_rs             *)
(* (src/src/wiird.rs): wiird_codes and the recursive process_block, the    *)
(* codeset loaders in front of it, and the PSA script decoder              *)
(* (src/src/script.rs), which has its own variables and actions.           *)
(*                                                                         *)
(* The recursion of process_block is modelled by an explicit call stack:   *)
(* every frame holds the locals of one process_block call (its slice       *)
(* start, offset, codes, is_nested, and the IfTest it holds while the      *)
(* recursive call for the then-branch is running).  One action is one      *)
(* iteration of the `while offset < data.len()` loop of the innermost      *)
(* call, including every return it triggers in the calls above it.         *)
(*                                                                         *)
(* Representation notes:                                                   *)
(*  - a u32 read from the stream is kept as the pair <<high 16 bits, low   *)
(*    16 bits>> (TLC's integers are 32-bit signed);                        *)
(*  - a usize that wrapped below zero (release build) is kept as the       *)
(*    negative integer it is congruent to modulo 2^64, and compared as     *)
(*    unsigned (see usize_lt);                                             *)
(*  - every code carries `at`, the absolute stream offset of the opcode    *)
(*    it was decoded from (a history field, not a field of the Rust enum). *)
(***************************************************************************)
EXTENDS Integers, Sequences, FiniteSets, TLC

VARIABLES
    file,        \* the codeset a loader was called on, and what kind it is
    data,        \* the byte slice handed to wiird_codes
    stack,       \* the active process_block calls, outermost first
    prev_stack,  \* history: `stack` as it was when the last iteration began
    status,      \* "loading" | "error" | "loaded" | "running" | "returned" |
                 \* "panic" | "idle"
    result,      \* the codes of the WiiRDBlock wiird_codes returned
    top_kind,    \* which ProcessedBlock variant wiird_codes received
    endifs,      \* history: the count of every ProcessedBlock::EndIf returned
    iterations,  \* history: loop-body iterations executed so far
    parent_data,   \* the blob new_script was called on
    script_offset, \* the `offset` argument of new_script
    event_offset,  \* new_script's cursor
    events,        \* the events pushed so far
    script_status, \* "idle" | "called" | "loop" | "returned" | "panic"
    script,        \* the Script new_script returned (None before)
    stopped_by,    \* history: why new_script returned
    max_read,      \* history: highest index of parent_data read so far
    offset_tables,  \* the offset tables scripts() is called on, one per list
    action_scripts, \* the lists of scripts decoded from them
    fragments,      \* the vector fragment_scripts is building
    phase,          \* "none" | "scripts" | "fragments" | "done"
    event_pos       \* fragment_scripts' place in the events of action_scripts

wiird_vars == <<file, data, stack, prev_stack, status, result, top_kind, endifs,
               iterations>>

script_vars == <<parent_data, script_offset, event_offset, events, script_status,
                 script, stopped_by, max_read>>

fragment_vars == <<offset_tables, action_scripts, fragments, phase, event_pos>>

vars == <<wiird_vars, script_vars, fragment_vars>>

(***************************************************************************)
(* Bounds                                                                  *)
(***************************************************************************)
\* longest input, in 8-byte lines, of each family of inputs
MaxLines == 4
MaxJumpLines == 3
MaxTruncLines == 2
MaxFieldLines == 3
MaxTextLines == 3
MaxGctLines == 2
MaxRecords == 3
MaxFragmentRecords == 3
MaxGeckoLines == 3

\* loop iterations after which a run is no longer followed
MaxIter == 8

(***************************************************************************)
(* Byte-level readers (byteorder::ReadBytesExt on &data[i ..])             *)
(***************************************************************************)
\* data.len() of the slice a call works on: the slice starts at `base`
slice_len(d, base) == Len(d) - base

\* unsigned comparison of two usize values (negative = wrapped past 2^63)
usize_lt(a, b) == IF (a < 0) = (b < 0) THEN a < b ELSE b < 0

\* data[i] of the whole stream (0-based index); callers check the bound
byte_at(d, i) == d[i + 1]

read_u16(d, i) == byte_at(d, i) * 256 + byte_at(d, i + 1)

read_i16(d, i) == IF read_u16(d, i) >= 32768 THEN read_u16(d, i) - 65536 ELSE read_u16(d, i)

read_u32(d, i) == <<read_u16(d, i), read_u16(d, i + 2)>>

\* bit `k` of a byte
bit(b, k) == (b \div (2 ^ k)) % 2

\* data[offset] & 0b11101110
masked_code(b) == b - bit(b, 0) - 16 * bit(b, 4)

\* read_u32(..) & 0x1FFFFFF
address_of(d, i) == (read_u32(d, i)[1] % 512) * 65536 + read_u32(d, i)[2]

\* a u32 count `as usize`, compared against the bytes that are left
count_fits(w, avail) == w[1] < 32768 /\ w[1] * 65536 + w[2] <= avail

count_of(w) == w[1] * 65536 + w[2]


(***************************************************************************)
(* Rust enums                                                              *)
(***************************************************************************)
\* Option<T>: None is the empty sequence, Some(x) the one-element sequence
None == <<>>

Some(x) == <<x>>

\* the IfTest slot of a frame that is not waiting for a then-branch
NoTest == [variant |-> "NoTest"]

Infinite == [kind |-> "Infinite", x |-> 0]

Finite(x) == [kind |-> "Finite", x |-> x]

Finished(codes) == [kind |-> "Finished", codes |-> codes]

EndIfBlock(count, then_branch, bytes_processed, rbh, rph) ==
    [kind |-> "EndIf", count |-> count, codes |-> then_branch,
     bytes_processed |-> bytes_processed,
     reset_base_address_high |-> rbh, reset_pointer_address_high |-> rph]

\* mutant of operation_byte: the high nibble is shifted down
operation_byte_shifted(b1) == b1 \div 16

\* data[offset + 1] & 0xF0 of the 0x86 / 0x88 arms
operation_byte(b1) == b1 - (b1 % 16)

GeckoOperation_new(value) ==
    CASE value = 0  -> [variant |-> "Add", value |-> 0]
      [] value = 1  -> [variant |-> "Mul", value |-> 0]
      [] value = 2  -> [variant |-> "Or", value |-> 0]
      [] value = 3  -> [variant |-> "And", value |-> 0]
      [] value = 4  -> [variant |-> "Xor", value |-> 0]
      [] value = 5  -> [variant |-> "ShiftLeft", value |-> 0]
      [] value = 6  -> [variant |-> "ShiftRight", value |-> 0]
      [] value = 7  -> [variant |-> "RotateLeft", value |-> 0]
      [] value = 8  -> [variant |-> "ArithmeticShiftRight", value |-> 0]
      [] value = 10 -> [variant |-> "FloatAdd", value |-> 0]
      [] value = 11 -> [variant |-> "FloatMul", value |-> 0]
      [] OTHER      -> [variant |-> "Unknown", value |-> value]

\* match (add_bool, use_base_address)
add_address(add_bool, use_base_address) ==
    IF add_bool
    THEN (IF use_base_address THEN "BaseAddress" ELSE "PointerAddress")
    ELSE "None"

\* if register_bool { Some(register) } else { None }
gecko_register(d, p) ==
    IF bit(byte_at(d, p + 2), 4) # 0 THEN Some(byte_at(d, p + 3) % 16) ELSE None

\* match data[offset + 1] { 0x00 => WhenTrue, 0x10 => WhenFalse, 0x20 => Always }
jump_flag(b) ==
    CASE b = 0  -> "WhenTrue"
      [] b = 16 -> "WhenFalse"
      [] b = 32 -> "Always"
      [] OTHER  -> "unknown"

(***************************************************************************)
(* process_block: the arms that push one code and advance                  *)
(***************************************************************************)
use_base_address_of(d, p) == bit(byte_at(d, p), 4) = 0

\* the masked discriminants whose arm pushes exactly one code and goes on
PlainCodes == {0, 2, 4, 6, 8, 64, 66, 68, 70, 72, 74, 76, 78, 96, 98,
               128, 130, 132, 134, 136, 138, 140, 192, 194}

IfCodes == {32, 34, 36, 38, 40, 42, 44, 46}

JumpCodes == {100, 102, 104}

EndIfCodes == {224, 226}

\* the bytes an arm reads at fixed indexes (its highest index plus one); a
\* read past data.len() panics.  The 4-byte header read of line 88 comes
\* before every arm.
fixed_read(code) ==
    CASE code \in {70, 78, 102} -> 4
      [] code = 8               -> 16
      [] OTHER                  -> 8

\* TRUE when every index the arm touches is < data.len()
reads_in_bounds(d, p, code) ==
    /\ p + 4 <= Len(d)
    /\ p + fixed_read(code) <= Len(d)
    /\ code = 6 => count_fits(read_u32(d, p + 4), Len(d) - (p + 8))
    /\ code \in {192, 194} =>
          /\ read_u32(d, p + 4)[1] = 0
          /\ 8 * read_u32(d, p + 4)[2] <= Len(d) - (p + 8)

\* values.push(data[offset + 8 + i]) for i in 0..n
payload(d, p, n) == [i \in 1..n |-> byte_at(d, p + 8 + i - 1)]

\* mutant of plain_advance: a string write is not aligned to 8 bytes
plain_advance_unaligned(d, p, code) ==
    CASE code = 8  -> 16
      [] code = 6  -> 8 + count_of(read_u32(d, p + 4))
      [] code \in {192, 194} -> 8 + count_of(read_u32(d, p + 4)) * 8
      [] OTHER     -> 8

\* offset += ...: the size of a plain opcode
plain_advance(d, p, code) ==
    CASE code = 8  -> 16
      [] code = 6  ->
           LET count == count_of(read_u32(d, p + 4))
           IN  8 + count + (IF count % 8 # 0 THEN 8 - (count % 8) ELSE 0)
      [] code \in {192, 194} -> 8 + count_of(read_u32(d, p + 4)) * 8
      [] OTHER     -> 8

\* the WiiRDCode the arm pushes; p is the absolute offset of the opcode
plain_code(d, p, code) ==
    LET use_base_address == use_base_address_of(d, p)
        address == address_of(d, p)
        b1 == byte_at(d, p + 1)
        b3 == byte_at(d, p + 3)
        w4 == read_u32(d, p + 4)
    IN CASE code = 0 ->
              [op |-> "WriteAndFill8", at |-> p, use_base_address |-> use_base_address,
               address |-> address, value8 |-> byte_at(d, p + 7),
               length |-> read_u16(d, p + 4) + 1]
         [] code = 2 ->
              [op |-> "WriteAndFill16", at |-> p, use_base_address |-> use_base_address,
               address |-> address, value16 |-> read_u16(d, p + 6),
               length |-> read_u16(d, p + 4) + 1]
         [] code = 4 ->
              [op |-> "WriteAndFill32", at |-> p, use_base_address |-> use_base_address,
               address |-> address, value |-> w4]
         [] code = 6 ->
              [op |-> "StringWrite", at |-> p, use_base_address |-> use_base_address,
               address |-> address, values |-> payload(d, p, count_of(w4))]
         [] code = 8 ->
              [op |-> "SerialWrite", at |-> p, use_base_address |-> use_base_address,
               address |-> address, initial_value |-> w4,
               value_size |-> byte_at(d, p + 8),
               count |-> (read_u16(d, p + 8) % 4096) + 1,
               address_increment |-> read_u16(d, p + 10),
               value_increment |-> read_u32(d, p + 12)]
         [] code \in {64, 72} ->
              [op |-> IF code = 64 THEN "LoadBaseAddress" ELSE "LoadPointerAddress",
               at |-> p, add_result |-> bit(b1, 4) # 0,
               add_mem_address |-> add_address(bit(b1, 0) # 0, use_base_address),
               add_mem_address_gecko_register |-> gecko_register(d, p),
               mem_address |-> w4]
         [] code \in {66, 74} ->
              [op |-> IF code = 66 THEN "SetBaseAddress" ELSE "SetPointerAddress",
               at |-> p, add_result |-> bit(b1, 4) # 0,
               add |-> add_address(bit(b1, 0) # 0, use_base_address),
               add_gecko_register |-> gecko_register(d, p),
               value |-> w4]
         [] code \in {68, 76} ->
              [op |-> IF code = 68 THEN "StoreBaseAddress" ELSE "StorePointerAddress",
               at |-> p,
               add_mem_address |-> add_address(bit(b1, 0) # 0, use_base_address),
               add_mem_address_gecko_register |-> gecko_register(d, p),
               mem_address |-> w4]
         [] code \in {70, 78} ->
              [op |-> IF code = 70 THEN "SetBaseAddressToCodeLocation"
                                  ELSE "SetPointerAddressToCodeLocation",
               at |-> p, address_offset |-> read_i16(d, p + 2)]
         [] code = 96 ->
              [op |-> "SetRepeat", at |-> p, count |-> read_u16(d, p + 2),
               block_id |-> byte_at(d, p + 7)]
         [] code = 98 ->
              [op |-> "ExecuteRepeat", at |-> p, block_id |-> byte_at(d, p + 7) % 16]
         [] code = 128 ->
              [op |-> "SetGeckoRegister", at |-> p, add_result |-> bit(b1, 4) # 0,
               add |-> add_address(bit(b1, 0) # 0, use_base_address),
               register |-> b3 % 16, value |-> w4]
         [] code \in {130, 132} ->
              [op |-> IF code = 130 THEN "LoadGeckoRegister" ELSE "StoreGeckoRegister",
               at |-> p, register |-> b3 % 16, mem_address |-> w4]
         [] code = 134 ->
              [op |-> "OperationGeckoRegisterDirectValue", at |-> p,
               operation |-> GeckoOperation_new(operation_byte(b1)),
               load_register |-> bit(b1, 0) # 0, load_value |-> bit(b1, 1) # 0,
               register |-> b3 % 16, value |-> w4]
         [] code = 136 ->
              [op |-> "OperationGeckoRegister", at |-> p,
               operation |-> GeckoOperation_new(operation_byte(b1)),
               load_register1 |-> bit(b1, 0) # 0, load_register2 |-> bit(b1, 1) # 0,
               register1 |-> b3 % 16, register2 |-> byte_at(d, p + 7) % 16]
         [] code = 138 ->
              [op |-> "MemoryCopy1", at |-> p, use_base_address |-> use_base_address,
               count |-> read_u16(d, p + 1),
               source_register |-> b3 - (b3 % 16),
               dest_register |-> IF b3 % 16 = 15 THEN None ELSE Some(b3 % 16),
               dest_offset |-> w4]
         [] code = 140 ->
              [op |-> "MemoryCopy2", at |-> p, use_base_address |-> use_base_address,
               count |-> read_u16(d, p + 1),
               source_register |-> IF b3 - (b3 % 16) = 15 THEN None
                                   ELSE Some(b3 - (b3 % 16)),
               dest_register |-> b3 % 16,
               source_offset |-> w4]
         [] code = 192 ->
              [op |-> "ExecutePPC", at |-> p,
               instruction_data |-> payload(d, p, count_of(w4) * 8)]
         [] code = 194 ->
              [op |-> "InsertPPC", at |-> p, use_base_address |-> use_base_address,
               address |-> address,
               instruction_data |-> payload(d, p, count_of(w4) * 8)]

\* mutant of mask_address: the low bit is kept
mask_address_kept(address) == address

\* address & 0xFFFFFFFE
mask_address(address) == address - (address % 2)

\* the IfTest built by the 0x20 .. 0x2E arm
if_test(d, p, code) ==
    LET use_base_address == use_base_address_of(d, p)
        address == mask_address(address_of(d, p))
        name == CASE code = 32 -> "IsEqual"
                  [] code = 34 -> "IsNotEqual"
                  [] code = 36 -> "IsGreaterThan"
                  [] code = 38 -> "IsLessThan"
                  [] code = 40 -> "IsEqualMask"
                  [] code = 42 -> "IsNotEqualMask"
                  [] code = 44 -> "IsGreaterThanMask"
                  [] code = 46 -> "IsLessThanMask"
    IN IF code \in {32, 34, 36, 38}
       THEN [variant |-> name, use_base_address |-> use_base_address,
             address |-> address, value |-> read_u32(d, p + 4)]
       ELSE [variant |-> name, use_base_address |-> use_base_address,
             address |-> address, lhs_mask |-> read_u16(d, p + 4),
             rhs_value |-> read_u16(d, p + 6)]

(***************************************************************************)
(* The call stack                                                          *)
(***************************************************************************)
\* the locals of one process_block(&data[base ..], is_nested) call; `test`
\* and `if_at` are set while the call waits for its then-branch
Frame(base, offset, codes, is_nested, test, if_at) ==
    [base |-> base, offset |-> offset, codes |-> codes, is_nested |-> is_nested,
     test |-> test, if_at |-> if_at]

top(stk) == stk[Len(stk)]

\* absolute stream offset the innermost call is at
cursor(stk) == top(stk).base + top(stk).offset

IfStatement_code(test, then_branch, rbh, rph, at) ==
    [op |-> "IfStatement", at |-> at, test |-> test, then_branch |-> then_branch,
     else_branch |-> None,
     reset_base_address_high |-> rbh, reset_pointer_address_high |-> rph]

\* mutant of ResetAddressHigh_code: the two reset fields change places
ResetAddressHigh_swapped(rbh, rph, at) ==
    [op |-> "ResetAddressHigh", at |-> at,
     reset_base_address_high |-> rph, reset_pointer_address_high |-> rbh]

ResetAddressHigh_code(rbh, rph, at) ==
    [op |-> "ResetAddressHigh", at |-> at,
     reset_base_address_high |-> rbh, reset_pointer_address_high |-> rph]

\* mutant of decrement: the count is handed on unchanged
decrement_kept(count) == count

\* EndIfCount after one if was closed: Finite(x) => Finite(x - 1)
decrement(count) == IF count.kind = "Infinite" THEN Infinite ELSE Finite(count.x - 1)

\* mutant of multi_endif: only a finite count asks for more pops
multi_endif_finite_only(count) == IF count.kind = "Infinite" THEN FALSE ELSE count.x > 0

multi_endif(count) == IF count.kind = "Infinite" THEN TRUE ELSE count.x > 0

\* mutant of propagates: the top-level block hands the terminator on too
propagates_always(count, is_nested) == multi_endif(count)

\* does the caller hand the terminator on to its own caller (line 176)
propagates(count, is_nested) == multi_endif(count) /\ is_nested

\* what the caller returns when its then-branch came back Finished (line 187)
unterminated_if(codes) == Finished(<<>>)

\* The innermost call of stk returns ret.  What is left is the state the
\* decoder is in once every caller has handled the value it received:
\* wiird_codes (lines 74-79) when stk held one call, else the if arm of the
\* caller (lines 161-189), which may itself return.
RECURSIVE return_block(_, _)
return_block(stk, ret) ==
    LET here == IF ret.kind = "EndIf" THEN <<ret.count>> ELSE <<>>
        after(r) == [r EXCEPT !.endifs = here \o @]
    IN
    IF Len(stk) = 1
    THEN [stack |-> <<>>, status |-> "returned", top_kind |-> ret.kind,
          result |-> IF ret.kind = "Finished" THEN ret.codes ELSE <<>>,
          endifs |-> here]
    ELSE LET rest == SubSeq(stk, 1, Len(stk) - 1)
             caller == top(rest)
         IN IF ret.kind = "EndIf"
            THEN LET offset == caller.offset + ret.bytes_processed
                     pushed == Append(caller.codes,
                                 IfStatement_code(caller.test, ret.codes,
                                     ret.reset_base_address_high,
                                     ret.reset_pointer_address_high, caller.if_at))
                     count == decrement(ret.count)
                 IN IF propagates(count, caller.is_nested)
                    THEN after(return_block(rest,
                             EndIfBlock(count, pushed, offset,
                                        ret.reset_base_address_high,
                                        ret.reset_pointer_address_high)))
                    ELSE [stack |-> [rest EXCEPT ![Len(rest)] =
                                       Frame(caller.base, offset,
                                             Append(pushed,
                                                 ResetAddressHigh_code(
                                                     ret.reset_base_address_high,
                                                     ret.reset_pointer_address_high,
                                                     caller.base + offset - 8)),
                                             caller.is_nested, NoTest, 0)],
                          status |-> "running", top_kind |-> "none", result |-> <<>>,
                          endifs |-> here]
            ELSE after(return_block(rest, unterminated_if(caller.codes)))

(***************************************************************************)
(* process_block: one action per group of match arms                       *)
(***************************************************************************)
\* while offset < data.len()
InLoop ==
    /\ status = "running"
    /\ usize_lt(top(stack).offset, slice_len(data, top(stack).base))
    /\ iterations < MaxIter

\* data[offset] & 0b11101110 of the opcode the innermost call is at
cur_code == masked_code(byte_at(data, cursor(stack)))

Iterated == /\ prev_stack' = stack
            /\ iterations' = iterations + 1
            /\ data' = data
            /\ UNCHANGED <<file, script_vars, fragment_vars>>

\* an index past the end or an unwrap of a short read: the thread panics
Panics == /\ status' = "panic"
          /\ UNCHANGED <<stack, result, top_kind, endifs>>

\* the iteration ends with the innermost call still in its loop
GoesOn(offset, codes) ==
    /\ stack' = [stack EXCEPT ![Len(stack)] =
                    Frame(top(stack).base, offset, codes, top(stack).is_nested, NoTest, 0)]
    /\ UNCHANGED <<status, result, top_kind, endifs>>

\* the innermost call executes `return ret`
Returns(ret) ==
    LET r == return_block(stack, ret)
    IN /\ stack' = r.stack
       /\ status' = r.status
       /\ result' = r.result
       /\ top_kind' = r.top_kind
       /\ endifs' = endifs \o r.endifs

\* the loop condition fails: ProcessedBlock::Finished(WiiRDBlock { codes })
EndOfData ==
    /\ status = "running"
    /\ ~usize_lt(top(stack).offset, slice_len(data, top(stack).base))
    /\ Returns(Finished(top(stack).codes))
    /\ prev_stack' = stack
    /\ UNCHANGED <<file, data, iterations, script_vars, fragment_vars>>

\* arms 0x00 .. 0x08, 0x40 .. 0x4E, 0x60, 0x62, 0x80 .. 0x8C, 0xC0, 0xC2
PlainCode ==
    /\ InLoop
    /\ cur_code \in PlainCodes
    /\ Iterated
    /\ LET f == top(stack)
           p == cursor(stack)
       IN IF reads_in_bounds(data, p, cur_code)
          THEN GoesOn(f.offset + plain_advance(data, p, cur_code),
                      Append(f.codes, plain_code(data, p, cur_code)))
          ELSE Panics

\* arms 0x20 .. 0x2E: build the test and decode the then-branch recursively
IfStatement ==
    /\ InLoop
    /\ cur_code \in IfCodes
    /\ Iterated
    /\ LET f == top(stack)
           p == cursor(stack)
       IN IF reads_in_bounds(data, p, cur_code)
          THEN /\ stack' = Append(
                      [stack EXCEPT ![Len(stack)] =
                          Frame(f.base, f.offset + 8, f.codes, f.is_nested,
                                if_test(data, p, cur_code), p)],
                      Frame(p + 8, 0, <<>>, TRUE, NoTest, 0))
               /\ UNCHANGED <<status, result, top_kind, endifs>>
          ELSE Panics

\* mutant of goto_skip: offset_lines taken as bytes, not as 8-byte lines
goto_skip_bytes(offset, offset_lines) == offset + 8 + offset_lines

\* offset after `offset += 8; offset += 8 * offset_lines as usize` when the
\* arithmetic wraps (overflow checks off)
goto_skip(offset, offset_lines) == offset + 8 + 8 * offset_lines

\* the codes after a 0x66 opcode
goto_codes(codes, flag, offset_lines, p) ==
    IF flag = "Always"
    THEN codes
    ELSE Append(codes, [op |-> "Goto", at |-> p, flag |-> flag,
                        offset_lines |-> offset_lines])

\* arms 0x64 (Return), 0x66 (Goto), 0x68 (Subroutine)
Jump ==
    /\ InLoop
    /\ cur_code \in JumpCodes
    /\ Iterated
    /\ LET f == top(stack)
           p == cursor(stack)
           flag == jump_flag(byte_at(data, p + 1))
           offset_lines == read_i16(data, p + 2)
       IN IF ~reads_in_bounds(data, p, 102)
          THEN Panics
          ELSE IF flag = "unknown"
          THEN Returns(Finished(f.codes))
          ELSE IF cur_code = 102
          THEN IF flag = "Always" /\ offset_lines < 0
               THEN \E overflow_checks \in BOOLEAN :
                       IF overflow_checks
                       THEN Panics
                       ELSE GoesOn(goto_skip(f.offset, offset_lines),
                                   goto_codes(f.codes, flag, offset_lines, p))
               ELSE GoesOn(IF flag = "Always"
                           THEN goto_skip(f.offset, offset_lines)
                           ELSE f.offset + 8,
                           goto_codes(f.codes, flag, offset_lines, p))
          ELSE IF ~reads_in_bounds(data, p, cur_code)
          THEN Panics
          ELSE GoesOn(f.offset + 8,
                      Append(f.codes,
                         IF cur_code = 100
                         THEN [op |-> "Return", at |-> p, flag |-> flag,
                               block_id |-> byte_at(data, p + 7) % 16]
                         ELSE [op |-> "Subroutine", at |-> p, flag |-> flag,
                               offset_lines |-> offset_lines,
                               block_id |-> byte_at(data, p + 7) % 16]))

\* mutant of else_codes: the else bit is ignored
else_codes_dropped(codes, d, p) == codes

\* codes after the `if else_branch { codes.push(Else ..) }` of the 0xE2 arm
else_codes(codes, d, p) ==
    IF bit(byte_at(d, p + 1), 4) # 0
    THEN Append(codes, [op |-> "Else", at |-> p, endif_count |-> byte_at(d, p + 3),
                        reset_base_address_high |-> read_u16(d, p + 4),
                        reset_pointer_address_high |-> read_u16(d, p + 6)])
    ELSE codes

\* mutant of returns_endif: a nested 0xE2 returns whatever its count is
returns_endif_always(d, p, code) == TRUE

\* does a nested terminator return: 0xE0 always, 0xE2 `if count != 0`
returns_endif(d, p, code) == code = 224 \/ byte_at(d, p + 3) # 0

\* the count a nested 0xE0 / 0xE2 returns with
endif_count(d, p, code) == IF code = 224 THEN Infinite ELSE Finite(byte_at(d, p + 3))

\* arms 0xE0 and 0xE2
EndIf ==
    /\ InLoop
    /\ cur_code \in EndIfCodes
    /\ Iterated
    /\ LET f == top(stack)
           p == cursor(stack)
           rbh == read_u16(data, p + 4)
           rph == read_u16(data, p + 6)
           codes == IF cur_code = 226 THEN else_codes(f.codes, data, p) ELSE f.codes
       IN IF ~reads_in_bounds(data, p, cur_code)
          THEN Panics
          ELSE IF f.is_nested
          THEN IF returns_endif(data, p, cur_code)
               THEN Returns(EndIfBlock(endif_count(data, p, cur_code), codes,
                                       f.offset + 8, rbh, rph))
               ELSE GoesOn(f.offset + 8, codes)
          ELSE GoesOn(f.offset + 8, Append(codes, ResetAddressHigh_code(rbh, rph, p)))

\* arm 0xF0 (no statement at all) and the `unknown` arm
OtherCode ==
    /\ InLoop
    /\ cur_code \notin (PlainCodes \cup IfCodes \cup JumpCodes \cup EndIfCodes)
    /\ Iterated
    /\ LET f == top(stack)
           p == cursor(stack)
       IN IF ~reads_in_bounds(data, p, 102)
          THEN Panics
          ELSE IF cur_code = 240
          THEN GoesOn(f.offset, f.codes)
          ELSE Returns(Finished(f.codes))

Next == \/ PlainCode
        \/ IfStatement
        \/ Jump
        \/ EndIf
        \/ OtherCode
        \/ EndOfData

(***************************************************************************)
(* Inputs                                                                  *)
(***************************************************************************)
SeqsUpTo(S, n) == UNION {[1..k -> S] : k \in 0..n}

RECURSIVE concat(_)
concat(lines) == IF lines = <<>> THEN <<>> ELSE Head(lines) \o concat(Tail(lines))

\* the PSA script decoder is not in use
no_script ==
    /\ parent_data = <<>>
    /\ script_offset = 0
    /\ event_offset = 0
    /\ events = <<>>
    /\ script_status = "idle"
    /\ script = None
    /\ stopped_by = "none"
    /\ max_read = -1

\* scripts() and fragment_scripts() are not in use
no_fragments ==
    /\ offset_tables = <<>>
    /\ action_scripts = <<>>
    /\ fragments = <<>>
    /\ phase = "none"
    /\ event_pos = 0

\* wiird_codes(data): process_block(data, false), called on bytes in memory
wiird_codes(d) ==
    /\ file = [kind |-> "none"]
    /\ no_script
    /\ no_fragments
    /\ data = d
    /\ stack = <<Frame(0, 0, <<>>, FALSE, NoTest, 0)>>
    /\ prev_stack = <<>>
    /\ status = "running"
    /\ result = <<>>
    /\ top_kind = "none"
    /\ endifs = <<>>
    /\ iterations = 0

\* 8-byte lines the inputs are built from
Write32Line == <<4, 0, 1, 0, 170, 187, 204, 221>>

IfLine == <<40, 0, 0, 16, 0, 255, 0, 10>>

E0Line == <<224, 0, 0, 0, 0, 1, 0, 2>>

E2Line(b1, n) == <<226, b1, 0, n, 0, 3, 0, 4>>

F0Line == <<240, 0, 0, 0, 0, 0, 0, 0>>

UnknownLine == <<10, 0, 0, 0, 0, 0, 0, 0>>

JumpLine(b0, b1, b2, b3) == <<b0, b1, b2, b3, 0, 0, 0, 5>>

StringLine == <<6, 0, 0, 0, 0, 0, 0, 3>>

PPCLine == <<192, 0, 0, 0, 0, 0, 0, 1>>

SerialLine == <<8, 0, 0, 32, 0, 0, 0, 7>>

\* if / endif structure
BlockLines == {Write32Line, IfLine, E0Line, E2Line(0, 0), E2Line(0, 1), E2Line(0, 2),
               E2Line(16, 1), F0Line, UnknownLine, JumpLine(102, 0, 0, 1)}

\* jumps: every flag, forward, zero and backward offsets
JumpLines == {Write32Line, IfLine, E0Line, UnknownLine,
              JumpLine(102, 32, 0, 1), JumpLine(102, 32, 0, 2), JumpLine(102, 32, 0, 0),
              JumpLine(102, 32, 255, 255), JumpLine(102, 32, 255, 254),
              JumpLine(102, 0, 0, 1), JumpLine(102, 16, 255, 255),
              JumpLine(102, 48, 0, 1), JumpLine(100, 32, 0, 0), JumpLine(100, 1, 0, 0),
              JumpLine(104, 16, 0, 1), JumpLine(104, 64, 0, 1)}

\* streams cut short: whole lines followed by the start of one more
TruncLines == {Write32Line, IfLine, E0Line, UnknownLine, JumpLine(102, 48, 0, 1),
               StringLine, PPCLine, SerialLine}

Tails == {<<>>, <<10>>, <<4, 0, 1>>, <<4, 0, 1, 0, 170>>, <<224, 0, 0, 0>>,
          <<102, 48>>, <<102, 32, 0, 1>>, <<70, 0, 0, 4>>, <<6, 0, 0, 0, 0, 0, 0, 3, 65>>}

Init == \E lines \in SeqsUpTo(BlockLines, MaxLines) : wiird_codes(concat(lines))

InitJump == \E lines \in SeqsUpTo(JumpLines, MaxJumpLines) : wiird_codes(concat(lines))

InitTrunc == \E lines \in SeqsUpTo(TruncLines, MaxTruncLines) :
                \E tail \in Tails : wiird_codes(concat(lines) \o tail)

Spec == Init /\ [][Next]_vars

SpecJump == InitJump /\ [][Next]_vars

SpecTrunc == InitTrunc /\ [][Next]_vars

(***************************************************************************)
(* What the last step was                                                  *)
(***************************************************************************)
\* the last step was a loop iteration of the call on top of prev_stack
Iteration ==
    /\ prev_stack # <<>>
    /\ usize_lt(top(prev_stack).offset, slice_len(data, top(prev_stack).base))

\* absolute offset and masked discriminant of the opcode it started at
prev_at == cursor(prev_stack)

prev_code == masked_code(byte_at(data, prev_at))

\* the whole 8-byte opcode is inside the stream
WholeOpcode == prev_at + 8 <= Len(data)

\* nesting depth (number of open ifs) the iteration started in
prev_depth == Len(prev_stack) - 1

depth == Len(stack) - 1

IsPrefix(s, t) == Len(s) <= Len(t) /\ \A i \in 1..Len(s) : s[i] = t[i]

(***************************************************************************)
(* Claims                                                                  *)
(***************************************************************************)
\* C1: wiird_codes never panics: whatever the length and content of the
\* input (a length that is not a multiple of 8, a truncated opcode, a
\* StringWrite / PPC count larger than what is left), no read falls outside
\* the slice.
C1_NeverPanics == status # "panic"

\* C2: every iteration of the decode loop that does not return leaves the
\* stream offset strictly greater than it was when the iteration began.
C2_Progress ==
    (Iteration /\ status = "running") =>
        \/ top(stack).offset < 0
        \/ cursor(stack) > prev_at

\* the input of scenario S1: a 32-bit write followed by F0
S1Input == Write32Line \o F0Line

\* C3: 0xF0 is end-of-program: when the top-level call meets an opcode whose
\* first byte is 0xF0, the decode ends there with exactly the codes decoded
\* before it; the input of S1 yields the single code
\* WriteAndFill32{use_base_address = true, address = 0x100, value = 0xAABBCCDD}.
C3_F0EndsProgram ==
    /\ (Iteration /\ prev_depth = 0 /\ byte_at(data, prev_at) = 240) =>
           (status = "returned" /\ result = top(prev_stack).codes)
    /\ (data = S1Input /\ status = "returned") =>
           /\ Len(result) = 1
           /\ result[1].op = "WriteAndFill32"
           /\ result[1].use_base_address
           /\ result[1].address = 256
           /\ result[1].value = <<43707, 52445>>

\* C4: an unterminated if keeps the partial result: when the decode of a
\* then-branch comes back Finished, the codes the top-level call had
\* accumulated before the if are in the block wiird_codes returns.
C4_UnterminatedIfKeepsCodes ==
    (status = "returned" /\ prev_stack # <<>> /\ prev_depth >= 1) =>
        IsPrefix(prev_stack[1].codes, result)

\* the opcode the iteration started at has a discriminant outside the table
UnknownDiscriminant ==
    prev_code \notin (PlainCodes \cup IfCodes \cup JumpCodes \cup EndIfCodes \cup {240})

\* ... or is a 0x64 / 0x66 / 0x68 opcode with a flag byte other than 00, 10, 20
UnknownJumpFlag ==
    /\ prev_code \in JumpCodes
    /\ prev_at + 1 < Len(data)
    /\ jump_flag(byte_at(data, prev_at + 1)) = "unknown"

\* C5: an unknown opcode or unknown jump flag met by the top-level call is a
\* terminal, non-fatal error: the call returns Finished with exactly the
\* codes emitted before that opcode.
C5_UnknownIsTerminal ==
    (Iteration /\ prev_depth = 0 /\ (UnknownDiscriminant \/ UnknownJumpFlag)) =>
        /\ status = "returned"
        /\ top_kind = "Finished"
        /\ result = top(prev_stack).codes

(***************************************************************************)
(* Closing of nested ifs                                                   *)
(***************************************************************************)
Last(s) == s[Len(s)]

Min(a, b) == IF a < b THEN a ELSE b

\* `code` is the IfStatement the call prev_stack[j] was waiting for, and the
\* ifs of the calls j+1 .. d are nested in it, each the last code of its
\* parent's then_branch; the innermost then_branch is `branch`
RECURSIVE closes(_, _, _, _)
closes(code, j, d, branch) ==
    /\ code.op = "IfStatement"
    /\ code.at = prev_stack[j].if_at
    /\ code.test = prev_stack[j].test
    /\ IF j = d
       THEN code.then_branch = branch
       ELSE /\ Len(code.then_branch) = Len(prev_stack[j + 1].codes) + 1
            /\ IsPrefix(prev_stack[j + 1].codes, code.then_branch)
            /\ closes(Last(code.then_branch), j + 1, d, branch)

\* the last iteration closed exactly the m innermost ifs, whose innermost
\* then_branch is `branch`, and the decoder goes on right after the
\* terminator in the call that held the outermost of them
ClosedBy(m, branch) ==
    LET level == prev_depth - m + 1
        before == prev_stack[level].codes
        c == top(stack).codes
    IN /\ status = "running"
       /\ Len(stack) = level
       /\ \A i \in 1..(level - 1) : stack[i] = prev_stack[i]
       /\ cursor(stack) = prev_at + 8
       /\ Len(c) = Len(before) + 2
       /\ IsPrefix(before, c)
       /\ closes(c[Len(before) + 1], level, prev_depth, branch)
       /\ Last(c).op = "ResetAddressHigh"
       /\ Last(c).at = prev_at

\* C6: E0 pops every pending if: an E0 opcode met inside d >= 1 nested ifs
\* closes all d of them (each inner IfStatement is the last code of its
\* parent's then_branch) and decoding goes on in the top-level block.
C6_E0PopsAll ==
    (Iteration /\ prev_depth >= 1 /\ prev_code = 224 /\ WholeOpcode) =>
        /\ depth = 0
        /\ ClosedBy(prev_depth, top(prev_stack).codes)

C6_Witness ==
    /\ status = "running"
    /\ depth = 0
    /\ LET c == top(stack).codes
       IN \E i \in 1..(Len(c) - 2) :
             /\ c[i].op = "IfStatement"
             /\ c[i].then_branch # <<>>
             /\ Last(c[i].then_branch).op = "IfStatement"
             /\ c[i + 1].op = "ResetAddressHigh"
             /\ byte_at(data, c[i + 1].at) = 224
             /\ c[i + 2].op = "WriteAndFill32"
             /\ c[i + 2].at = c[i + 1].at + 8

\* C7: E2 pops exactly its count: an E2 opcode with count byte n >= 1 met
\* inside d >= 1 nested ifs closes exactly min(n, d) of them, and decoding
\* goes on in the block at depth d - min(n, d).
C7_E2PopsCount ==
    (Iteration /\ prev_depth >= 1 /\ prev_code = 226 /\ WholeOpcode
       /\ byte_at(data, prev_at + 3) >= 1) =>
        LET m == Min(byte_at(data, prev_at + 3), prev_depth)
        IN /\ depth = prev_depth - m
           /\ ClosedBy(m, else_codes(top(prev_stack).codes, data, prev_at))

C7_Witness ==
    /\ status = "running"
    /\ depth = 1
    /\ LET c == top(stack).codes
       IN /\ Len(c) >= 3
          /\ c[1].op = "IfStatement"
          /\ c[2].op = "ResetAddressHigh"
          /\ byte_at(data, c[2].at) = 226
          /\ byte_at(data, c[2].at + 3) = 1
          /\ c[3].op = "WriteAndFill32"

\* the last iteration started at a 0x66 opcode
AtGoto == Iteration /\ prev_code = 102 /\ prev_at + 4 <= Len(data)

goto_flag == jump_flag(byte_at(data, prev_at + 1))

goto_lines == read_i16(data, prev_at + 2)

\* C8: a 0x66 opcode with flag Always and offset_lines n > 0 emits no Goto
\* and the next opcode is decoded 8 + 8n bytes past the goto's start; with
\* flag WhenTrue or WhenFalse it emits Goto{flag, offset_lines} and the next
\* opcode is decoded 8 bytes past the goto's start.
C8_ForwardGotoElided ==
    /\ (AtGoto /\ goto_flag = "Always" /\ goto_lines > 0) =>
           /\ status = "running"
           /\ depth = prev_depth
           /\ top(stack).codes = top(prev_stack).codes
           /\ cursor(stack) = prev_at + 8 + 8 * goto_lines
    /\ (AtGoto /\ goto_flag \in {"WhenTrue", "WhenFalse"}) =>
           /\ status = "running"
           /\ depth = prev_depth
           /\ top(stack).codes =
                 Append(top(prev_stack).codes,
                        [op |-> "Goto", at |-> prev_at, flag |-> goto_flag,
                         offset_lines |-> goto_lines])
           /\ cursor(stack) = prev_at + 8

C8_Witness ==
    /\ AtGoto
    /\ goto_flag = "Always"
    /\ goto_lines > 0
    /\ status = "running"
    /\ cursor(stack) < Len(data)

\* C9: a 0x66 opcode with flag Always and a negative offset_lines is emitted
\* like a conditional goto: Goto{Always, offset_lines} is pushed and the
\* decoder goes on at the next 8-byte opcode, never moving backwards.
C9_BackwardGotoEmitted ==
    (AtGoto /\ goto_flag = "Always" /\ goto_lines < 0) =>
        /\ status = "running"
        /\ top(stack).codes =
              Append(top(prev_stack).codes,
                     [op |-> "Goto", at |-> prev_at, flag |-> "Always",
                      offset_lines |-> goto_lines])
        /\ cursor(stack) = prev_at + 8

RECURSIVE NoElseBranch(_)
NoElseBranch(codes) ==
    \A i \in 1..Len(codes) :
        codes[i].op = "IfStatement" =>
            /\ codes[i].else_branch = None
            /\ NoElseBranch(codes[i].then_branch)

\* the then_branch reached from `code` through k - 1 last-code IfStatements
RECURSIVE last_branch(_, _)
last_branch(code, k) ==
    IF k = 1 THEN code.then_branch ELSE last_branch(Last(code.then_branch), k - 1)

\* the Else code an E2 opcode with its else bit stands for
ElseAt(p) ==
    [op |-> "Else", at |-> p, endif_count |-> byte_at(data, p + 3),
     reset_base_address_high |-> read_u16(data, p + 4),
     reset_pointer_address_high |-> read_u16(data, p + 6)]

\* C10: else_branch is never populated: every IfStatement of a returned
\* tree, at every depth, has else_branch = None; an E2 opcode with bit 4 of
\* byte 1 set is kept only as a standalone Else{endif_count = byte 3, reset
\* fields} appended to the block being decoded (the then-branch when nested).
C10_ElseIsStandalone ==
    /\ status = "returned" => NoElseBranch(result)
    /\ \A i \in 1..Len(stack) : NoElseBranch(stack[i].codes)
    /\ (Iteration /\ prev_code = 226 /\ WholeOpcode
          /\ bit(byte_at(data, prev_at + 1), 4) = 1) =>
           LET n == byte_at(data, prev_at + 3)
               block == Append(top(prev_stack).codes, ElseAt(prev_at))
               c == top(stack).codes
           IN /\ status = "running"
              /\ IF prev_depth >= 1 /\ n >= 1
                 THEN last_branch(c[Len(c) - 1], Min(n, prev_depth)) = block
                 ELSE /\ depth = prev_depth
                      /\ IsPrefix(block, c)
                      /\ Len(c) = Len(block) + (IF prev_depth = 0 THEN 1 ELSE 0)

C10_Witness ==
    /\ status = "returned"
    /\ \E i \in 1..Len(result) :
          /\ result[i].op = "IfStatement"
          /\ result[i].else_branch = None
          /\ result[i].then_branch # <<>>
          /\ Last(result[i].then_branch).op = "Else"
          /\ Last(result[i].then_branch).endif_count = 1

(***************************************************************************)
(* Field decoding: if tests, string writes, memory copies                  *)
(***************************************************************************)
\* 0x39: IsEqualMask, bit 4 set, every address bit set
IfOddLine == <<57, 255, 255, 255, 0, 15, 0, 1>>

\* 0x21: IsEqual, bit 4 clear, address 0x1000003
IfHighLine == <<33, 0, 0, 3, 0, 0, 0, 9>>

\* 0x06 with count 8 and count 0
String8Line == <<6, 0, 0, 0, 0, 0, 0, 8>>

String0Line == <<6, 0, 0, 0, 0, 0, 0, 0>>

\* 'A' 'B' 'C' and padding (decoded as 0x40 when met as an opcode)
PayloadLine == <<65, 66, 67, 0, 0, 0, 0, 0>>

\* 0x8A / 0x8C with the register byte b3
MemoryCopyLine(b0, b3) == <<b0, 0, 1, b3, 0, 0, 0, 6>>

FieldLines == {Write32Line, IfLine, IfOddLine, IfHighLine, E0Line, UnknownLine,
               JumpLine(102, 0, 0, 1), StringLine, String8Line, String0Line,
               PayloadLine, MemoryCopyLine(138, 31), MemoryCopyLine(138, 242),
               MemoryCopyLine(140, 241), MemoryCopyLine(140, 47),
               MemoryCopyLine(140, 15)}

InitFields == \E lines \in SeqsUpTo(FieldLines, MaxFieldLines) : wiird_codes(concat(lines))

SpecFields == InitFields /\ [][Next]_vars

IfTestWellFormed(test, at) ==
    /\ test.address % 2 = 0
    /\ test.address <= 33554430
    /\ test.use_base_address = (bit(byte_at(data, at), 4) = 0)

\* every IfStatement of a block, at every depth, has a well-formed test
RECURSIVE IfTestsWellFormed(_)
IfTestsWellFormed(codes) ==
    \A i \in 1..Len(codes) :
        codes[i].op = "IfStatement" =>
            /\ IfTestWellFormed(codes[i].test, codes[i].at)
            /\ IfTestsWellFormed(codes[i].then_branch)

\* C11: IfTest address invariant: in every IfStatement at any depth of any
\* decoded tree the test's address has its low bit cleared and is at most
\* 0x1FFFFFE, and use_base_address is true exactly when bit 4 of byte 0 of
\* the if opcode is 0.  The test a call holds while its then-branch is being
\* decoded obeys the same.
C11_IfTestAddress ==
    /\ status = "returned" => IfTestsWellFormed(result)
    /\ \A i \in 1..Len(stack) :
          /\ IfTestsWellFormed(stack[i].codes)
          /\ stack[i].test # NoTest =>
                IfTestWellFormed(stack[i].test, stack[i].if_at)

\* an if opcode with an odd address field and bit 4 set was decoded and closed
C11_Witness ==
    /\ status = "returned"
    /\ \E i \in 1..Len(result) :
          /\ result[i].op = "IfStatement"
          /\ byte_at(data, result[i].at) = 57
          /\ result[i].test.address = 33554430
          /\ result[i].test.use_base_address = FALSE

\* the count field of the 0x06 opcode the last iteration started at
string_count == count_of(read_u32(data, prev_at + 4))

\* the header and the `count` payload bytes are inside the stream
WholeString ==
    /\ WholeOpcode
    /\ count_fits(read_u32(data, prev_at + 4), Len(data) - (prev_at + 8))

\* C12: StringWrite length and padding: a 0x06 opcode with count field c
\* appends StringWrite whose values are exactly the c bytes that follow the
\* 8-byte header, and decoding goes on 8 + c rounded up to a multiple of 8
\* bytes past the start of the opcode.
C12_StringWritePadding ==
    (Iteration /\ prev_code = 6 /\ WholeString) =>
        LET c == string_count
            codes == top(stack).codes
        IN /\ status = "running"
           /\ depth = prev_depth
           /\ Len(codes) = Len(top(prev_stack).codes) + 1
           /\ IsPrefix(top(prev_stack).codes, codes)
           /\ Last(codes).op = "StringWrite"
           /\ Last(codes).at = prev_at
           /\ Len(Last(codes).values) = c
           /\ \A i \in 1..c : Last(codes).values[i] = data[prev_at + 8 + i]
           /\ cursor(stack) = prev_at + 8 + ((c + 7) \div 8) * 8

\* S3: count 3, payload 'A' 'B' 'C', next offset 16 past the opcode
C12_Witness ==
    /\ Iteration /\ prev_code = 6 /\ WholeString
    /\ string_count = 3
    /\ Last(top(stack).codes).values = <<65, 66, 67>>
    /\ cursor(stack) = prev_at + 16
    /\ cursor(stack) + 8 <= Len(data)

\* the register byte (byte 3) of the memory-copy opcode of the last iteration
register_byte == byte_at(data, prev_at + 3)

\* C13: memory-copy "none" register: a 0x8A opcode whose dest register
\* (low nibble of byte 3) is 0xF decodes to dest_register = None, a 0x8C
\* opcode whose source register (high nibble of byte 3) is 0xF decodes to
\* source_register = None, and any other register decodes to Some(..).
C13_NoneRegister ==
    /\ (Iteration /\ prev_code = 138 /\ WholeOpcode) =>
          /\ status = "running"
          /\ Last(top(stack).codes).op = "MemoryCopy1"
          /\ (Last(top(stack).codes).dest_register = None)
                <=> (register_byte % 16 = 15)
          /\ register_byte % 16 # 15 =>
                Last(top(stack).codes).dest_register = Some(register_byte % 16)
    /\ (Iteration /\ prev_code = 140 /\ WholeOpcode) =>
          /\ status = "running"
          /\ Last(top(stack).codes).op = "MemoryCopy2"
          /\ (Last(top(stack).codes).source_register = None)
                <=> (register_byte \div 16 = 15)

(***************************************************************************)
(* Order of the decoded codes                                              *)
(***************************************************************************)
\* the codes of a block come from opcodes at increasing offsets, all of them
\* strictly between lo and hi; the then_branch of an IfStatement lies between
\* its if opcode and the opcode of the code that follows it in the block
RECURSIVE InStreamOrder(_, _, _)
InStreamOrder(codes, lo, hi) ==
    \A i \in 1..Len(codes) :
        LET next_at == IF i < Len(codes) THEN codes[i + 1].at ELSE hi
        IN /\ lo < codes[i].at
           /\ codes[i].at < next_at
           /\ codes[i].op = "IfStatement" =>
                 InStreamOrder(codes[i].then_branch, codes[i].at, next_at)

\* C14: order preservation: in every block of a decoded tree the codes are
\* in the order of the stream offsets of their opcodes, the then_branch of
\* an IfStatement comes from opcodes after the if opcode and before the
\* opcode of the code that follows the IfStatement, and no two codes come
\* from the same opcode.  The blocks of the calls in progress obey the same.
C14_OrderPreserved ==
    /\ status = "returned" => InStreamOrder(result, -1, Len(data))
    /\ \A i \in 1..Len(stack) :
          InStreamOrder(stack[i].codes,
                        IF i = 1 THEN -1 ELSE stack[i - 1].if_at, Len(data))

(***************************************************************************)
(* Codeset loaders: wiird_load_txt, wiird_load_gct (wiird.rs) and           *)
(* BrawlMod::load_wiird_codeset_raw (brawl_mod.rs).  A text file is the     *)
(* sequence of its lines (text.lines()), a line the sequence of its chars.  *)
(* The file is taken to exist and to be readable.                           *)
(***************************************************************************)
UpperHex == <<"0", "1", "2", "3", "4", "5", "6", "7", "8", "9",
              "A", "B", "C", "D", "E", "F">>

LowerHex == <<"0", "1", "2", "3", "4", "5", "6", "7", "8", "9",
              "a", "b", "c", "d", "e", "f">>

\* char::is_digit(16)
is_digit(c) == \E i \in 1..16 : UpperHex[i] = c \/ LowerHex[i] = c

\* char::to_digit(16).unwrap()
to_digit(c) == (CHOOSE i \in 1..16 : UpperHex[i] = c \/ LowerHex[i] = c) - 1

\* line.starts_with("*")
starts_with_star(line) == line # <<>> /\ line[1] = "*"

\* line.replace("*", "").replace(" ", "")
hex_chars(line) == SelectSeq(line, LAMBDA c : c # "*" /\ c # " ")

\* the three bail! conditions of a code line
bad_code_line(line) ==
    \/ \E i \in 1..Len(hex_chars(line)) : ~is_digit(hex_chars(line)[i])
    \/ Len(hex_chars(line)) > 16
    \/ Len(hex_chars(line)) < 16

\* mutant of hex_byte: low nibble first
hex_byte_swapped(first, second) == (second * 16) + first

\* (first << 4) | second
hex_byte(first, second) == (first * 16) + second

\* the 8 bytes pushed for one code line
line_bytes(line) ==
    [i \in 1..8 |-> hex_byte(to_digit(hex_chars(line)[2 * i - 1]),
                             to_digit(hex_chars(line)[2 * i]))]

\* the `for line in text.lines()` loop: Ok(data), or Err at the first bad line
RECURSIVE read_lines(_, _)
read_lines(lines, acc) ==
    IF lines = <<>> THEN [ok |-> TRUE, data |-> acc]
    ELSE IF ~starts_with_star(Head(lines)) THEN read_lines(Tail(lines), acc)
    ELSE IF bad_code_line(Head(lines)) THEN [ok |-> FALSE]
    ELSE read_lines(Tail(lines), acc \o line_bytes(Head(lines)))

\* mutant of header_missing: a file of exactly 8 bytes is refused too
header_missing_or_bare(len) == len <= 8

\* data.len() < 8
header_missing(len) == len < 8

\* &data[8..]
skip_header(bytes) == SubSeq(bytes, 9, Len(bytes))

\* bail!(..): the loader returns Err, nothing was decoded
Bails ==
    /\ status' = "error"
    /\ UNCHANGED <<file, data, stack, prev_stack, result, top_kind, endifs, iterations,
                   script_vars, fragment_vars>>

\* Ok(wiird_codes(&d)): the decoder starts on d
Decodes(d) ==
    /\ data' = d
    /\ stack' = <<Frame(0, 0, <<>>, FALSE, NoTest, 0)>>
    /\ status' = "running"
    /\ UNCHANGED <<file, prev_stack, result, top_kind, endifs, iterations, script_vars,
                   fragment_vars>>

wiird_load_txt ==
    /\ status = "loading"
    /\ file.kind = "txt"
    /\ LET r == read_lines(file.content, <<>>)
       IN IF r.ok THEN Decodes(r.data) ELSE Bails

wiird_load_gct ==
    /\ status = "loading"
    /\ file.kind = "gct"
    /\ IF header_missing(Len(file.content))
       THEN Bails
       ELSE Decodes(skip_header(file.content))

\* returns the bytes after the header; nothing is decoded
load_wiird_codeset_raw ==
    /\ status = "loading"
    /\ file.kind = "raw"
    /\ IF header_missing(Len(file.content))
       THEN Bails
       ELSE /\ data' = skip_header(file.content)
            /\ status' = "loaded"
            /\ UNCHANGED <<file, stack, prev_stack, result, top_kind, endifs, iterations,
                           script_vars, fragment_vars>>

NextLoad ==
    \/ wiird_load_txt
    \/ wiird_load_gct
    \/ load_wiird_codeset_raw
    \/ Next

\* a loader is called on a file
Loading(kind, content) ==
    /\ file = [kind |-> kind, content |-> content]
    /\ no_script
    /\ no_fragments
    /\ data = <<>>
    /\ stack = <<>>
    /\ prev_stack = <<>>
    /\ status = "loading"
    /\ result = <<>>
    /\ top_kind = "none"
    /\ endifs = <<>>
    /\ iterations = 0

\* the 2 * Len(bytes) hex digits of a byte sequence, as numbers
nibbles(bytes) ==
    [i \in 1..(2 * Len(bytes)) |->
        IF i % 2 = 1 THEN bytes[(i + 1) \div 2] \div 16 ELSE bytes[i \div 2] % 16]

upper(digits) == [i \in 1..Len(digits) |-> UpperHex[digits[i] + 1]]

lower(digits) == [i \in 1..Len(digits) |-> LowerHex[digits[i] + 1]]

\* "* XXXXXXXX YYYYYYYY"
CodeLine(bytes) ==
    <<"*", " ">> \o upper(SubSeq(nibbles(bytes), 1, 8)) \o <<" ">>
                 \o upper(SubSeq(nibbles(bytes), 9, 16))

\* "* 04000100 AABBCCDD"
S4Line == CodeLine(Write32Line)

\* "*04000100aabbccdd"
LowerCaseLine == <<"*">> \o lower(nibbles(Write32Line))

\* "*04000100*AABBCCDD"
StarInsideLine ==
    <<"*">> \o upper(SubSeq(nibbles(Write32Line), 1, 8)) \o <<"*">>
            \o upper(SubSeq(nibbles(Write32Line), 9, 16))

CommentLine == <<"R", "S", "B", "E">>

\* " * 04000100 AABBCCDD": does not start with '*'
IndentedLine == <<" ">> \o S4Line

\* "* 04000100 AABBCCDG"
NonHexLine == SubSeq(S4Line, 1, Len(S4Line) - 1) \o <<"G">>

\* 15 and 17 digits
ShortLine == SubSeq(S4Line, 1, Len(S4Line) - 1)

LongLine == S4Line \o <<"0">>

TextLines == {S4Line, CodeLine(IfLine), CodeLine(E0Line), CodeLine(UnknownLine),
              CodeLine(JumpLine(102, 0, 0, 1)), LowerCaseLine, StarInsideLine,
              CommentLine, IndentedLine, <<>>, NonHexLine, ShortLine, LongLine, <<"*">>}

\* 00 D0 C0 DE 00 D0 C0 DE
GctHeader == <<0, 208, 192, 222, 0, 208, 192, 222>>

GctLines == {Write32Line, IfLine, E0Line, UnknownLine}

GctFiles == {SubSeq(GctHeader, 1, k) : k \in 0..7}
               \cup {GctHeader \o concat(lines) : lines \in SeqsUpTo(GctLines, MaxGctLines)}

InitLoad ==
    \/ \E lines \in SeqsUpTo(TextLines, MaxTextLines) : Loading("txt", lines)
    \/ \E content \in GctFiles : \E kind \in {"gct", "raw"} : Loading(kind, content)

SpecLoad == InitLoad /\ [][NextLoad]_vars

\* the lines of the text file that start with '*', in file order
code_lines == SelectSeq(file.content, starts_with_star)

\* value of the n-th hex digit of a code line ('*' and ' ' not counted)
digit(line, n) == to_digit(hex_chars(line)[n])

\* C15: text codeset loading: when wiird_load_txt succeeds, the payload it
\* hands to the decoder is, in line order, 8 bytes for each line that starts
\* with '*' (two hex digits per byte, high nibble first, '*' and spaces
\* removed); the other lines add nothing; and the decoder starts on that
\* payload in the state wiird_codes starts in.
C15_TextPayload ==
    (file.kind = "txt" /\ status \notin {"loading", "error"}) =>
        /\ Len(data) = 8 * Len(code_lines)
        /\ \A k \in 1..Len(code_lines) : \A j \in 1..8 :
              data[8 * (k - 1) + j] =
                  16 * digit(code_lines[k], 2 * j - 1) + digit(code_lines[k], 2 * j)
        /\ prev_stack = <<>> =>
              /\ status = "running"
              /\ iterations = 0
              /\ stack = <<Frame(0, 0, <<>>, FALSE, NoTest, 0)>>
              /\ result = <<>>

\* S4 next to a line that is ignored: one WriteAndFill32 is decoded
C15_Witness ==
    /\ file.kind = "txt"
    /\ Len(file.content) = 2
    /\ code_lines = <<S4Line>>
    /\ data = <<4, 0, 1, 0, 170, 187, 204, 221>>
    /\ status = "returned"
    /\ Len(result) = 1
    /\ result[1].op = "WriteAndFill32"

\* C16: format failures give an error and no tree: wiird_load_txt returns
\* Err exactly when some line that starts with '*' has a non-hex character
\* or not exactly 16 hex digits once '*' and spaces are removed, whatever
\* valid lines come before it; wiird_load_gct and load_wiird_codeset_raw
\* return Err exactly when the file has fewer than 8 bytes, and a file of
\* exactly 8 bytes succeeds with an empty payload.  After Err nothing was
\* decoded.
C16_FormatFailures ==
    status # "loading" =>
        /\ file.kind = "txt" =>
              ((status = "error") <=>
                  \E k \in 1..Len(code_lines) :
                      \/ Len(hex_chars(code_lines[k])) # 16
                      \/ \E i \in 1..Len(hex_chars(code_lines[k])) :
                            ~is_digit(hex_chars(code_lines[k])[i]))
        /\ file.kind \in {"gct", "raw"} =>
              /\ (status = "error") <=> (Len(file.content) < 8)
              /\ Len(file.content) = 8 => data = <<>>
        /\ status = "error" =>
              /\ data = <<>>
              /\ stack = <<>>
              /\ result = <<>>
              /\ iterations = 0

\* a bad code line after a valid one: Err, and nothing decoded
C16_Witness ==
    /\ file.kind = "txt"
    /\ Len(file.content) = 2
    /\ file.content[1] = S4Line
    /\ file.content[2] = ShortLine
    /\ status = "error"
    /\ result = <<>>

(***************************************************************************)
(* PSA scripts (src/src/script.rs): scripts, new_script, arguments.        *)
(* One action is one pass through the `loop` of new_script.  Events and     *)
(* arguments carry `at`, the offset of the record they were decoded from    *)
(* (a history field).  An i32 is a TLC integer; a u32 is a pair as above.   *)
(***************************************************************************)
EVENT_SIZE == 8

ARGUMENT_SIZE == 8

\* read_i32::<BigEndian>()
read_i32(d, i) ==
    (IF byte_at(d, i) >= 128 THEN byte_at(d, i) - 256 ELSE byte_at(d, i)) * 16777216
        + byte_at(d, i + 1) * 65536 + read_u16(d, i + 2)

\* `offset as u32` of a usize (negative = wrapped past 2^63)
as_u32(x) ==
    IF x >= 0 THEN <<x \div 65536, x % 65536>>
    ELSE <<65535 - ((-(x + 1)) \div 65536), 65535 - ((-(x + 1)) % 65536)>>

\* argument_offset as usize >= parent_data.len()
offset_past_end(w, len) == w[1] >= 32768 \/ count_of(w) >= len

\* value >> 31 of an i32: an arithmetic shift, the sign fills the word
shr31(value) == IF value < 0 THEN -1 ELSE 0

InternalConstants ==
    0 :> "CurrentFrame" @@ 2 :> "Damage" @@ 3 :> "CharacterXPosition"
      @@ 4 :> "CharacterYPosition" @@ 8 :> "CharacterDirection"
      @@ 9 :> "CharacterDirectionOpposite" @@ 23 :> "VerticalCharacterVelocity"
      @@ 24 :> "CurrentFrameSpeed" @@ 28 :> "HorizontalCharacterVelocity"
      @@ 38 :> "Knockback" @@ 39 :> "SurfaceTraction" @@ 1000 :> "XVelocity"
      @@ 1005 :> "LaunchSpeed" @@ 1006 :> "RightVelocity"
      @@ 1007 :> "LeftVelocity" @@ 1008 :> "UpVelocity"
      @@ 1009 :> "DownVelocity" @@ 1010 :> "ControlStickXAxis"
      @@ 1011 :> "ControlStickXAxisRelative"
      @@ 1012 :> "ControlStickXAxisRelativeReverse"
      @@ 1013 :> "ControlStickXAxisAbsolute"
      @@ 1014 :> "ControlStickXAxisReverse"
      @@ 1017 :> "ControlStickXAxisReverse2" @@ 1018 :> "ControlStickYAxis"
      @@ 1019 :> "ControlStickYAxisAbsolute"
      @@ 1020 :> "ControlStickYAxisReverse" @@ 1021 :> "ControlStickYAxis2"
      @@ 1022 :> "PreviousControlStickXAxis"
      @@ 1023 :> "PreviousControlStickXAxisRelative"
      @@ 1024 :> "PreviousControlStickXAxisRelativeReverse"
      @@ 1025 :> "PreviousControlStickXAxisAbsolute"
      @@ 1026 :> "PreviousControlStickYAxis"
      @@ 1027 :> "PreviousControlStickYAxisAbsolute"
      @@ 1028 :> "PreviousControlStickYAxisReverse"
      @@ 20000 :> "CurrentSubaction" @@ 20001 :> "CurrentAction"
      @@ 20003 :> "PreviousAction" @@ 20009 :> "HeldItem"
      @@ 21004 :> "EffectOfAttack" @@ 21010 :> "FramesSinceNormal"
      @@ 21012 :> "FramesSinceSpecial" @@ 21014 :> "FramesSinceJump"
      @@ 21016 :> "FramesSinceShield" @@ 21018 :> "FramesSinceShield2"
      @@ 23001 :> "TurnRunFrameTimer" @@ 23002 :> "JumpStartTimer"
      @@ 23003 :> "MaxJumpCount" @@ 23004 :> "GlideStartTimer"
      @@ 23007 :> "TermVelFrameTimer"

\* InternalConstant::new
InternalConstant_new(address) ==
    IF address \in DOMAIN InternalConstants
    THEN [variant |-> InternalConstants[address]]
    ELSE [variant |-> "Address", address |-> address]

\* VariableMemory::new
VariableMemory_new(memory_type, memory_address) ==
    CASE memory_type = 0 -> [variant |-> "InternalConstant",
                             constant |-> InternalConstant_new(memory_address)]
      [] memory_type = 1 -> [variant |-> "LongtermAccess", address |-> memory_address]
      [] memory_type = 2 -> [variant |-> "RandomAccess", address |-> memory_address]
      [] OTHER -> [variant |-> "Unknown", memory_type |-> memory_type,
                   memory_address |-> memory_address]

\* VariableDataType::new
VariableDataType_new(value) ==
    CASE value = 0 -> [variant |-> "Int"]
      [] value = 1 -> [variant |-> "Float"]
      [] value = 2 -> [variant |-> "Bool"]
      [] OTHER -> [variant |-> "Unknown", value |-> value]

Requirements ==
    0 :> "CharacterExists" @@ 1 :> "AnimationEnd"
      @@ 2 :> "AnimationHasLooped" @@ 3 :> "OnGround" @@ 4 :> "InAir"
      @@ 5 :> "HoldingALedge" @@ 6 :> "OnAPassableFloor" @@ 7 :> "Comparison"
      @@ 8 :> "BoolIsTrue" @@ 9 :> "FacingRight" @@ 10 :> "FacingLeft"
      @@ 11 :> "HitboxConnects" @@ 12 :> "TouchingAFloorWallOrCeiling"
      @@ 13 :> "IsThrowingSomeone" @@ 15 :> "ButtonTap"
      @@ 20 :> "EnteringOrIsInHitLag" @@ 21 :> "ArticleExists"
      @@ 23 :> "HasAFloorBelowThePlayer" @@ 27 :> "ChangeInAirGroundState"
      @@ 28 :> "ArticleAvailable" @@ 31 :> "HoldingItem"
      @@ 32 :> "HoldingItemOfType" @@ 33 :> "LightItemIsInGrabRange"
      @@ 34 :> "HeavyItemIsInGrabRange" @@ 35 :> "ItemOfTypeIsInGrabbingRange"
      @@ 36 :> "TurningWithItem" @@ 42 :> "InWater" @@ 43 :> "RollADie"
      @@ 44 :> "SubactionExists"
      @@ 46 :> "ButtonMashingOrStatusExpiredSleepBuryFreeze"
      @@ 47 :> "IsNotInDamagingLens" @@ 48 :> "ButtonPress"
      @@ 49 :> "ButtonRelease" @@ 50 :> "ButtonPressed"
      @@ 51 :> "ButtonNotPressed" @@ 52 :> "StickDirectionPressed"
      @@ 53 :> "StickDirectionNotPressed" @@ 55 :> "IsBeingThrownBySomeone1"
      @@ 56 :> "IsBeingThrownBySomeone2" @@ 57 :> "HasntTethered3Times"
      @@ 58 :> "HasPassedOverAnEdgeForward"
      @@ 59 :> "HasPassedOverAnEdgeBackward" @@ 60 :> "IsHoldingSomeoneInGrab"
      @@ 61 :> "HitboxHasConnected" @@ 71 :> "PickUpItem"
      @@ 76 :> "HitByCapeEffect" @@ 103 :> "InWalljump" @@ 104 :> "InWallCling"
      @@ 105 :> "InFootstoolRange" @@ 108 :> "IsFallingOrHitDown"
      @@ 109 :> "HasSmashBall" @@ 111 :> "CanPickupAnotherItem"
      @@ 115 :> "FSmashShorcut" @@ 123 :> "TapJumpOn"

\* Requirement::new
Requirement_new(value) ==
    LET flip == shr31(value) = 1
        v == value % 256
    IN [variant |-> "Requirement", flip |-> flip,
        ty |-> IF v \in DOMAIN Requirements
               THEN [variant |-> Requirements[v]]
               ELSE [variant |-> "Unknown", value |-> v]]

\* `data as f32`: the nearest value with a 24-bit mantissa, ties to even,
\* kept as sign * mantissa * 2^exponent
RECURSIVE f32_exponent(_)
f32_exponent(a) == IF a < 16777216 THEN 0 ELSE 1 + f32_exponent(a \div 2)

as_f32(x) ==
    LET a == IF x < 0 THEN -(x + 1) ELSE x
        e == f32_exponent(a)
        unit == 2 ^ e
        m == IF x < 0 THEN (a \div unit) + (IF a % unit = unit - 1 THEN 1 ELSE 0)
             ELSE a \div unit
        r == IF x < 0 THEN (IF a % unit = unit - 1 THEN 0 ELSE (a % unit) + 1)
             ELSE a % unit
        up == 2 * r > unit \/ (2 * r = unit /\ m % 2 = 1)
    IN [negative |-> x < 0, mantissa |-> IF up THEN m + 1 ELSE m, exponent |-> e]

\* mutant of memory_type_of: the second nibble of the word is taken
memory_type_second_nibble(word) == (word \div 16777216) % 16

\* ((data & 0xF0000000) >> 28) as u8, data being the u32 view of the word
memory_type_of(word) == (word \div 268435456) % 16

\* ((data & 0x0F000000) >> 24) as u8
data_type_of(word) == (word \div 16777216) % 16

\* (data & 0x00FFFFFF) as u32
memory_address_of(word) == word % 16777216

\* the match of arguments(): one Argument from its ty and data words
argument(ty, word, at) ==
    CASE ty = 0 -> [variant |-> "Value", at |-> at, value |-> word]
      [] ty = 1 -> [variant |-> "Scalar", at |-> at, numerator |-> as_f32(word),
                    denominator |-> 60000]
      [] ty = 2 -> [variant |-> "Offset", at |-> at, value |-> word]
      [] ty = 3 -> [variant |-> "Bool", at |-> at, value |-> (word = 1)]
      [] ty = 4 -> [variant |-> "File", at |-> at, value |-> word]
      [] ty = 5 ->
           [variant |-> "Variable", at |-> at,
            memory |-> VariableMemory_new(memory_type_of(word), memory_address_of(word)),
            data_type |-> VariableDataType_new(data_type_of(word))]
      [] ty = 6 -> [at |-> at] @@ Requirement_new(word)
      [] OTHER -> [variant |-> "Unknown", at |-> at, ty |-> ty, value |-> word]

\* every read of arguments() is inside parent_data
arguments_in_bounds(d, argument_offset, num_arguments) ==
    num_arguments = 0 \/ argument_offset + num_arguments * ARGUMENT_SIZE <= Len(d)

arguments(d, argument_offset, num_arguments) ==
    [i \in 1..num_arguments |->
        LET at == argument_offset + (i - 1) * ARGUMENT_SIZE
        IN argument(read_i32(d, at), read_i32(d, at + 4), at)]

\* mutant of in_range: offset 0 is taken as an entry point
in_range_from_zero(offset, len) == usize_lt(offset, len)

\* offset > 0 && offset < parent_data.len()
in_range(offset, len) == offset # 0 /\ usize_lt(offset, len)

\* mutant of is_sentinel: the namespace alone ends the script
is_sentinel_namespace_only(namespace, code) == namespace = 0

\* code == 0 && namespace == 0
is_sentinel(namespace, code) == code = 0 /\ namespace = 0

\* raw_id == 0xFADEF00D || raw_id == 0xFADE0D8A
is_filler(raw_id) == raw_id = <<64222, 61453>> \/ raw_id = <<64222, 3466>>

Event(namespace, code, unk1, args, at) ==
    [namespace |-> namespace, code |-> code, unk1 |-> unk1, arguments |-> args, at |-> at]

Max(a, b) == IF a >= b THEN a ELSE b

\* Script { events, offset: offset as u32 }
ScriptReturns(why) ==
    /\ script' = Some([events |-> events, offset |-> as_u32(script_offset)])
    /\ script_status' = "returned"
    /\ stopped_by' = why
    /\ UNCHANGED <<parent_data, script_offset, event_offset, events>>

ScriptPanics ==
    /\ script_status' = "panic"
    /\ UNCHANGED <<parent_data, script_offset, event_offset, events, script,
                   stopped_by, max_read>>

\* the range test fails: the loop is never entered
EmptyScript ==
    /\ script_status = "called"
    /\ ~in_range(script_offset, Len(parent_data))
    /\ ScriptReturns("range")
    /\ UNCHANGED <<max_read, wiird_vars, fragment_vars>>

\* let mut event_offset = offset
EnterLoop ==
    /\ script_status = "called"
    /\ in_range(script_offset, Len(parent_data))
    /\ event_offset' = script_offset
    /\ script_status' = "loop"
    /\ UNCHANGED <<parent_data, script_offset, events, script, stopped_by, max_read,
                   wiird_vars, fragment_vars>>

\* the four header bytes parent_data[event_offset .. event_offset + 3]
header_in_bounds == event_offset + 4 <= Len(parent_data)

namespace_at(p) == byte_at(parent_data, p)

code_at(p) == byte_at(parent_data, p + 1)

\* parent_data[event_offset + k] is past the end: index out of bounds
EventTruncated ==
    /\ script_status = "loop"
    /\ ~header_in_bounds
    /\ ScriptPanics
    /\ UNCHANGED <<wiird_vars, fragment_vars>>

\* the (0, 0) record: break
EventSentinel ==
    /\ script_status = "loop"
    /\ header_in_bounds
    /\ is_sentinel(namespace_at(event_offset), code_at(event_offset))
    /\ ScriptReturns("sentinel")
    /\ max_read' = Max(max_read, event_offset + 3)
    /\ UNCHANGED <<wiird_vars, fragment_vars>>

\* 0xFADEF00D / 0xFADE0D8A: nothing is pushed
EventFiller ==
    /\ script_status = "loop"
    /\ header_in_bounds
    /\ ~is_sentinel(namespace_at(event_offset), code_at(event_offset))
    /\ is_filler(read_u32(parent_data, event_offset))
    /\ event_offset' = event_offset + EVENT_SIZE
    /\ max_read' = Max(max_read, event_offset + 3)
    /\ UNCHANGED <<parent_data, script_offset, events, script_status, script,
                   stopped_by, wiird_vars, fragment_vars>>

\* any other record: read argument_offset, decode the arguments, push
EventDecoded ==
    /\ script_status = "loop"
    /\ header_in_bounds
    /\ ~is_sentinel(namespace_at(event_offset), code_at(event_offset))
    /\ ~is_filler(read_u32(parent_data, event_offset))
    /\ UNCHANGED <<wiird_vars, fragment_vars>>
    /\ LET num_arguments == byte_at(parent_data, event_offset + 2)
           unk1 == byte_at(parent_data, event_offset + 3)
       IN IF event_offset + 8 > Len(parent_data)
          THEN ScriptPanics
          ELSE LET w == read_u32(parent_data, event_offset + 4)
                   argument_offset == count_of(w)
               IN IF offset_past_end(w, Len(parent_data))
                  THEN /\ ScriptReturns("argument_offset")
                       /\ max_read' = Max(max_read, event_offset + 7)
                  ELSE IF ~arguments_in_bounds(parent_data, argument_offset,
                                               num_arguments)
                  THEN ScriptPanics
                  ELSE /\ events' =
                            Append(events,
                                   Event(namespace_at(event_offset),
                                         code_at(event_offset), unk1,
                                         arguments(parent_data, argument_offset,
                                                   num_arguments),
                                         event_offset))
                       /\ event_offset' = event_offset + EVENT_SIZE
                       /\ max_read' =
                            Max(max_read,
                                Max(event_offset + 7,
                                    argument_offset + num_arguments * ARGUMENT_SIZE - 1))
                       /\ UNCHANGED <<parent_data, script_offset, script_status, script,
                                      stopped_by>>

NextScript ==
    \/ EmptyScript
    \/ EnterLoop
    \/ EventTruncated
    \/ EventSentinel
    \/ EventFiller
    \/ EventDecoded

\* the codeset decoder is not in use
no_codeset ==
    /\ file = [kind |-> "none"]
    /\ data = <<>>
    /\ stack = <<>>
    /\ prev_stack = <<>>
    /\ status = "idle"
    /\ result = <<>>
    /\ top_kind = "none"
    /\ endifs = <<>>
    /\ iterations = 0

\* scripts(): new_script(parent_data, offset as usize) for one i32 table entry
scripts(parent, offset_data) ==
    /\ no_codeset
    /\ no_fragments
    /\ parent_data = parent
    /\ script_offset = read_i32(offset_data, 0)
    /\ event_offset = 0
    /\ events = <<>>
    /\ script_status = "called"
    /\ script = None
    /\ stopped_by = "none"
    /\ max_read = -1

\* 8-byte records the blobs are built from; the blob starts with 4 bytes
\* that are no record, so that the first record has a positive offset
BlobHeader == <<80, 83, 65, 0>>

SentinelRecord == <<0, 0, 0, 0, 0, 0, 0, 0>>

EventRecord(namespace, code, num_arguments, argument_offset) ==
    <<namespace, code, num_arguments, 5, 0, 0, 0, argument_offset>>

\* argument_offset 0x10000: past the end of every blob
FarRecord == <<3, 0, 1, 0, 0, 1, 0, 0>>

\* 0xFADEF00D
FillerRecord == <<250, 222, 240, 13, 0, 0, 0, 0>>

ArgumentRecord(ty, b4, b7) == <<0, 0, 0, ty, b4, 0, 0, b7>>

ScriptRecords == {SentinelRecord, EventRecord(1, 1, 0, 0), EventRecord(2, 1, 1, 12),
                  EventRecord(2, 2, 2, 12), EventRecord(0, 7, 1, 4), FarRecord,
                  FillerRecord, ArgumentRecord(6, 128, 1), ArgumentRecord(6, 0, 200),
                  ArgumentRecord(2, 0, 12), ArgumentRecord(5, 1, 42),
                  ArgumentRecord(5, 16, 42)}

\* the blob ends on a record boundary, or inside the header of a record
ScriptTails == {<<>>, <<1, 1, 0>>}

\* entries of the offset table: 0, 4, 12, -8, 256
OffsetEntries == {<<0, 0, 0, 0>>, <<0, 0, 0, 4>>, <<0, 0, 0, 12>>,
                  <<255, 255, 255, 248>>, <<0, 0, 1, 0>>}

InitScript ==
    \E records \in SeqsUpTo(ScriptRecords, MaxRecords) :
        \E tail \in ScriptTails : \E entry \in OffsetEntries :
            scripts(BlobHeader \o concat(records) \o tail, entry)

SpecScript == InitScript /\ [][NextScript]_vars

\* offset == 0 or offset >= parent.len(), a negative table entry being a
\* huge usize
OutOfRange == script_offset <= 0 \/ script_offset >= Len(parent_data)

\* C17: an out-of-range entry gives an empty script: when offset is 0 or at
\* least parent.len() (negative table entries included), new_script returns
\* a Script with no events whose offset is the offset truncated to 32 bits,
\* and it reads no byte of parent.
C17_EmptyScript ==
    (script_status # "idle" /\ OutOfRange) =>
        /\ script_status \in {"called", "returned"}
        /\ max_read = -1
        /\ script_status = "returned" =>
              LET o == script[1].offset
              IN /\ script[1].events = <<>>
                 /\ o[1] \in 0..65535 /\ o[2] \in 0..65535
                 /\ (o[1] - (IF script_offset < 0 THEN 65536 ELSE 0)) * 65536 + o[2]
                       = script_offset

\* the table entry -8: an empty script with offset 0xFFFFFFF8
C17_Witness ==
    /\ script_status = "returned"
    /\ script_offset = -8
    /\ Len(parent_data) >= 12
    /\ script = Some([events |-> <<>>, offset |-> <<65535, 65528>>])

\* the record at p has namespace 0 and code 0
SentinelAt(p) == parent_data[p + 1] = 0 /\ parent_data[p + 2] = 0

\* C18: script sentinel: walking from the entry offset in steps of 8,
\* new_script stops at the first record whose namespace and code are both 0,
\* pushes nothing for it and nothing located after it; no Event has
\* namespace = 0 and code = 0.
C18_Sentinel ==
    (script_status \in {"loop", "returned", "panic"} /\ stopped_by # "range") =>
        /\ \A i \in 1..Len(events) :
              /\ ~(events[i].namespace = 0 /\ events[i].code = 0)
              /\ events[i].at >= script_offset
              /\ events[i].at < event_offset
              /\ (events[i].at - script_offset) % 8 = 0
        /\ \A q \in script_offset..(event_offset - 1) :
              (q - script_offset) % 8 = 0 => ~SentinelAt(q)
        /\ stopped_by = "sentinel" => SentinelAt(event_offset)
        /\ (script_status = "returned" /\ stopped_by # "sentinel"
              /\ event_offset + 2 <= Len(parent_data)) => ~SentinelAt(event_offset)
        /\ script_status = "returned" => script[1].events = events

\* an event, the sentinel, then a record that would be an event
C18_Witness ==
    /\ script_status = "returned"
    /\ stopped_by = "sentinel"
    /\ Len(script[1].events) = 1
    /\ event_offset + 16 <= Len(parent_data)
    /\ parent_data[event_offset + 9] = 2

\* C19: PSA decoding never panics: for every blob and every entry offset
\* new_script and arguments read no index >= parent.len() and return a
\* Script.
C19_ScriptNeverPanics == script_status # "panic"

\* what the claim says a ty = 6 argument record at `at` decodes to
RequirementAt(at) ==
    LET v == parent_data[at + 8]
    IN [flip |-> parent_data[at + 5] >= 128,
        ty |-> IF v \in DOMAIN Requirements
               THEN [variant |-> Requirements[v]]
               ELSE [variant |-> "Unknown", value |-> v]]

\* C20: Requirement flip bit: an argument record with ty = 6 decodes to
\* Argument::Requirement whose flip is true exactly when bit 31 of the data
\* word is set and whose ty is the table entry of data & 0xFF, Unknown(data
\* & 0xFF) when there is none.
C20_RequirementFlip ==
    \A i \in 1..Len(events) : \A j \in 1..Len(events[i].arguments) :
        LET a == events[i].arguments[j]
        IN /\ (a.variant = "Requirement") <=> (read_i32(parent_data, a.at) = 6)
           /\ a.variant = "Requirement" =>
                 /\ a.flip = RequirementAt(a.at).flip
                 /\ a.ty = RequirementAt(a.at).ty

\* the 8 bytes of the argument record at offset `at`
record_at(at) == SubSeq(parent_data, at + 1, at + 8)

\* the arguments of every event pushed so far
DecodedArguments ==
    UNION {{events[i].arguments[j] : j \in 1..Len(events[i].arguments)} :
              i \in 1..Len(events)}

\* C21 as stated (scenario S6): the argument record 00 00 00 05 01 00 00 2A
\* decodes to Variable{memory = LongtermAccess(0x2A), data_type = Int}.
C21_S6AsStated ==
    \A a \in DecodedArguments :
        record_at(a.at) = <<0, 0, 0, 5, 1, 0, 0, 42>> =>
            /\ a.variant = "Variable"
            /\ a.memory = [variant |-> "LongtermAccess", address |-> 42]
            /\ a.data_type = [variant |-> "Int"]

\* C21, amended: the argument record 00 00 00 05 01 00 00 2A decodes to
\* Variable{memory = InternalConstant(Address(0x2A)), data_type = Float}:
\* the memory type is the top nibble of the data word (0) and the data type
\* the nibble below it (1).  Variable{LongtermAccess(0x2A), Int} is what the
\* record 00 00 00 05 10 00 00 2A decodes to.
C21_S6Variable ==
    \A a \in DecodedArguments :
        /\ record_at(a.at) = <<0, 0, 0, 5, 1, 0, 0, 42>> =>
              /\ a.variant = "Variable"
              /\ a.memory = [variant |-> "InternalConstant",
                             constant |-> [variant |-> "Address", address |-> 42]]
              /\ a.data_type = [variant |-> "Float"]
        /\ record_at(a.at) = <<0, 0, 0, 5, 16, 0, 0, 42>> =>
              /\ a.variant = "Variable"
              /\ a.memory = [variant |-> "LongtermAccess", address |-> 42]
              /\ a.data_type = [variant |-> "Int"]

\* a returned script holds an event whose argument is the S6 record
C21_Witness ==
    /\ script_status = "returned"
    /\ \E i \in 1..Len(script[1].events) :
          /\ Len(script[1].events[i].arguments) = 1
          /\ record_at(script[1].events[i].arguments[1].at) = <<0, 0, 0, 5, 1, 0, 0, 42>>
          /\ script[1].events[i].arguments[1].variant = "Variable"

(***************************************************************************)
(* scripts() and fragment_scripts() (src/src/script.rs).  The action-script *)
(* lists are the ones scripts() decodes from the offset tables; every call  *)
(* of new_script runs the actions above.  One action of fragment_scripts is *)
(* one pass through its innermost `for event` loop body, split at the call  *)
(* of new_script.                                                           *)
(***************************************************************************)
\* new_script(parent_data, offset) is called
NewScriptCall(offset) ==
    /\ script_offset' = offset
    /\ event_offset' = 0
    /\ events' = <<>>
    /\ script_status' = "called"
    /\ script' = None
    /\ stopped_by' = "none"
    /\ max_read' = -1
    /\ UNCHANGED parent_data

\* the caller takes the Script new_script returned
NewScriptTaken ==
    /\ script_status' = "idle"
    /\ UNCHANGED <<parent_data, script_offset, event_offset, events, script, stopped_by,
                   max_read>>

\* every table was walked to its end
tables_done ==
    \A t \in 1..Len(offset_tables) : Len(action_scripts[t]) = Len(offset_tables[t])

\* the table scripts() is working on
current_table ==
    CHOOSE t \in 1..Len(offset_tables) :
        /\ Len(action_scripts[t]) < Len(offset_tables[t])
        /\ \A u \in 1..(t - 1) : Len(action_scripts[u]) = Len(offset_tables[u])

\* scripts(): read_i32(&offset_data[i * 4..]) as usize, new_script(..)
ScriptsCall ==
    /\ phase = "scripts"
    /\ script_status = "idle"
    /\ ~tables_done
    /\ LET t == current_table
           i == Len(action_scripts[t]) + 1
       IN NewScriptCall(read_i32(offset_tables[t][i], 0))
    /\ UNCHANGED <<wiird_vars, fragment_vars>>

\* scripts(): result.push(..)
ScriptsPush ==
    /\ phase = "scripts"
    /\ script_status = "returned"
    /\ action_scripts' = [action_scripts EXCEPT ![current_table] = Append(@, script[1])]
    /\ NewScriptTaken
    /\ UNCHANGED <<wiird_vars, offset_tables, fragments, phase, event_pos>>

\* every script of every list, and their events, in iteration order
all_scripts == concat(action_scripts)

all_events == concat([i \in 1..Len(all_scripts) |-> all_scripts[i].events])

\* fragment_scripts(parent_data, action_scripts) is called
FragmentsBegin ==
    /\ phase = "scripts"
    /\ script_status = "idle"
    /\ tables_done
    /\ phase' = "fragments"
    /\ event_pos' = 1
    /\ UNCHANGED <<wiird_vars, script_vars, offset_tables, action_scripts, fragments>>

\* event.namespace == 0 && (event.code == 7 || event.code == 9)
is_goto(event) == event.namespace = 0 /\ (event.code = 7 \/ event.code = 9)

\* if let Some(Argument::Offset(offset)) = event.arguments.get(0)
has_offset(event) == Len(event.arguments) >= 1 /\ event.arguments[1].variant = "Offset"

\* check_script.offset == *offset as u32, for some action script
is_action(offset) ==
    \E i \in 1..Len(all_scripts) : all_scripts[i].offset = as_u32(offset)

\* mutant of already_added: the fragments pushed so far are not looked at
already_added_never(frags, offset) == FALSE

\* fragments.iter().any(|x| x.offset == *offset as u32)
already_added(frags, offset) == \E i \in 1..Len(frags) : frags[i].offset = as_u32(offset)

\* the event calls for a new fragment
new_fragment(event) ==
    /\ is_goto(event)
    /\ has_offset(event)
    /\ ~is_action(event.arguments[1].value)
    /\ ~already_added(fragments, event.arguments[1].value)

InEvents ==
    /\ phase = "fragments"
    /\ script_status = "idle"
    /\ event_pos <= Len(all_events)

\* an event that adds nothing
FragmentSkip ==
    /\ InEvents
    /\ ~new_fragment(all_events[event_pos])
    /\ event_pos' = event_pos + 1
    /\ UNCHANGED <<wiird_vars, script_vars, offset_tables, action_scripts, fragments, phase>>

\* new_script(parent_data, *offset as usize)
FragmentCall ==
    /\ InEvents
    /\ new_fragment(all_events[event_pos])
    /\ NewScriptCall(all_events[event_pos].arguments[1].value)
    /\ UNCHANGED <<wiird_vars, fragment_vars>>

\* fragments.push(..)
FragmentPush ==
    /\ phase = "fragments"
    /\ script_status = "returned"
    /\ fragments' = Append(fragments, script[1])
    /\ event_pos' = event_pos + 1
    /\ NewScriptTaken
    /\ UNCHANGED <<wiird_vars, offset_tables, action_scripts, phase>>

\* the loops are over: fragments is returned
FragmentsReturn ==
    /\ phase = "fragments"
    /\ script_status = "idle"
    /\ event_pos > Len(all_events)
    /\ phase' = "done"
    /\ UNCHANGED <<wiird_vars, script_vars, offset_tables, action_scripts, fragments,
                   event_pos>>

NextFragments ==
    \/ ScriptsCall
    \/ ScriptsPush
    \/ FragmentsBegin
    \/ FragmentSkip
    \/ FragmentCall
    \/ FragmentPush
    \/ FragmentsReturn
    \/ NextScript

\* scripts() is about to be called on each table, then fragment_scripts()
fragment_scripts(parent, tables) ==
    /\ no_codeset
    /\ parent_data = parent
    /\ script_offset = 0
    /\ event_offset = 0
    /\ events = <<>>
    /\ script_status = "idle"
    /\ script = None
    /\ stopped_by = "none"
    /\ max_read = -1
    /\ offset_tables = tables
    /\ action_scripts = [t \in 1..Len(tables) |-> <<>>]
    /\ fragments = <<>>
    /\ phase = "scripts"
    /\ event_pos = 0

\* an offset table entry
Entry(n) == <<0, 0, 0, n>>

\* Offset(-8)
NegativeOffsetRecord == <<0, 0, 0, 2, 255, 255, 255, 248>>

FragmentRecords == {EventRecord(0, 7, 1, 20), EventRecord(0, 9, 1, 12),
                    EventRecord(1, 1, 0, 0), FillerRecord, ArgumentRecord(2, 0, 0),
                    ArgumentRecord(2, 0, 4), ArgumentRecord(2, 0, 12),
                    NegativeOffsetRecord}

FragmentTables == {<<<<Entry(4)>>>>, <<<<Entry(4)>>, <<Entry(12)>>>>,
                   <<<<Entry(4), Entry(12)>>>>, <<<<Entry(0)>>, <<Entry(4)>>>>}

InitFragments ==
    \E records \in SeqsUpTo(FragmentRecords, MaxFragmentRecords) :
        \E tables \in FragmentTables :
            fragment_scripts(BlobHeader \o concat(records), tables)

SpecFragments == InitFragments /\ [][NextFragments]_vars

\* C22: fragment uniqueness: the vector fragment_scripts builds and returns
\* holds no two scripts with equal offset, and no script whose offset is the
\* offset of a script of the action-script lists.
C22_FragmentsUnique ==
    /\ \A i \in 1..Len(fragments) : \A j \in 1..Len(fragments) :
          i # j => fragments[i].offset # fragments[j].offset
    /\ \A i \in 1..Len(fragments) : \A k \in 1..Len(all_scripts) :
          fragments[i].offset # all_scripts[k].offset

\* two gotos to the same target that is no action script: one fragment
C22_Witness ==
    /\ phase = "done"
    /\ Len(fragments) = 1
    /\ \E a \in 1..Len(all_events) : \E b \in 1..Len(all_events) :
          /\ a < b
          /\ is_goto(all_events[a]) /\ has_offset(all_events[a])
          /\ is_goto(all_events[b]) /\ has_offset(all_events[b])
          /\ all_events[a].arguments[1].value = all_events[b].arguments[1].value
          /\ fragments[1].offset = as_u32(all_events[a].arguments[1].value)

\* C23: fragments come only from positive targets: every fragment has an
\* offset in 1 ..= 0x7FFFFFFF (a goto or subroutine whose first argument is
\* Offset(0) or a negative Offset adds no fragment).
C23_PositiveTargets ==
    \A i \in 1..Len(fragments) :
        /\ fragments[i].offset # <<0, 0>>
        /\ fragments[i].offset[1] < 32768

\* mutant of raw_id: the low byte is unk1
raw_id_with_unk1(event) ==
    [asserted |-> Len(event.arguments) < 256,
     value |-> <<event.namespace * 256 + event.code,
                 Len(event.arguments) * 256 + event.unk1>>]

\* Event::raw_id: the assertion, and the u32 returned when it holds
raw_id(event) ==
    [asserted |-> Len(event.arguments) < 256,
     value |-> <<event.namespace * 256 + event.code, Len(event.arguments) * 256>>]

\* C24: raw_id recomposition: for every Event new_script pushed, raw_id()
\* passes its assertion and returns the first four bytes of the event's
\* record with the low byte (unk1) cleared.
C24_RawId ==
    \A i \in 1..Len(events) :
        /\ raw_id(events[i]).asserted
        /\ raw_id(events[i]).value =
              <<parent_data[events[i].at + 1] * 256 + parent_data[events[i].at + 2],
                parent_data[events[i].at + 3] * 256>>

\* a returned script with an event that has arguments and a nonzero unk1
C24_Witness ==
    /\ script_status = "returned"
    /\ \E i \in 1..Len(script[1].events) :
          /\ Len(script[1].events[i].arguments) = 2
          /\ script[1].events[i].unk1 = 5
          /\ raw_id(script[1].events[i]).value = <<514, 512>>

(***************************************************************************)
(* The if arm of process_block: reset records and endif counts             *)
(***************************************************************************)
\* the code after codes[i] is the ResetAddressHigh of the IfStatement codes[i]
ResetFollows(codes, i) ==
    /\ i < Len(codes)
    /\ codes[i + 1].op = "ResetAddressHigh"
    /\ codes[i + 1].reset_base_address_high = codes[i].reset_base_address_high
    /\ codes[i + 1].reset_pointer_address_high = codes[i].reset_pointer_address_high

\* every IfStatement of `codes` is followed by its reset record, but for one
\* that is the last code of a returned then_branch (is_branch); then the if
\* around it was closed by the same terminator
RECURSIVE IfsClosed(_, _)
IfsClosed(codes, is_branch) ==
    \A i \in 1..Len(codes) :
        codes[i].op = "IfStatement" =>
            /\ IF i = Len(codes) THEN is_branch ELSE ResetFollows(codes, i)
            /\ IfsClosed(codes[i].then_branch, TRUE)
            /\ LET b == codes[i].then_branch
               IN (b # <<>> /\ Last(b).op = "IfStatement") =>
                     /\ Last(b).reset_base_address_high = codes[i].reset_base_address_high
                     /\ Last(b).reset_pointer_address_high =
                           codes[i].reset_pointer_address_high

\* `code` is the outermost of m ifs closed by one terminator with the reset
\* fields rbh and rph: each inner one is the last code of its parent's
\* then_branch, with no reset record after it
RECURSIVE PropagatedIfs(_, _, _, _)
PropagatedIfs(code, m, rbh, rph) ==
    /\ code.op = "IfStatement"
    /\ code.reset_base_address_high = rbh
    /\ code.reset_pointer_address_high = rph
    /\ m > 1 => /\ code.then_branch # <<>>
                /\ PropagatedIfs(Last(code.then_branch), m - 1, rbh, rph)

\* C25: a closed if is followed by its reset record: an IfStatement pushed
\* by a call that does not hand the terminator on (decremented count
\* Finite(0), or the top-level block) is followed at once by ResetAddressHigh
\* with the same two reset fields; one pushed by a call that hands the
\* terminator on is the last code of the returned then_branch, with no
\* ResetAddressHigh at that level.
C25_ClosedIfReset ==
    /\ \A j \in 1..Len(stack) : IfsClosed(stack[j].codes, FALSE)
    /\ IfsClosed(result, FALSE)
    /\ (Iteration /\ prev_code \in EndIfCodes /\ WholeOpcode /\ depth < prev_depth) =>
          LET c == top(stack).codes
              rbh == read_u16(data, prev_at + 4)
              rph == read_u16(data, prev_at + 6)
          IN /\ status = "running"
             /\ Len(c) >= 2
             /\ PropagatedIfs(c[Len(c) - 1], prev_depth - depth, rbh, rph)
             /\ Last(c) = ResetAddressHigh_code(rbh, rph, prev_at)

\* an E2 with count 2 inside three ifs: the innermost if is handed on, the
\* middle one gets the reset record, the outermost is still open
C25_Witness ==
    /\ Iteration
    /\ prev_code = 226
    /\ prev_depth = 3
    /\ depth = 1
    /\ LET c == top(stack).codes
       IN /\ Len(c) = 2
          /\ c[1].op = "IfStatement"
          /\ Last(c[1].then_branch).op = "IfStatement"
          /\ c[2].op = "ResetAddressHigh"
          /\ c[2].reset_base_address_high = 3
          /\ c[2].reset_pointer_address_high = 4

\* C26: the top-level decode never ends in EndIf: wiird_codes receives
\* ProcessedBlock::Finished only; an E0 / E2 met outside any if is recorded
\* as ResetAddressHigh (after the Else of an E2 with the else bit) and the
\* top-level block goes on with the next opcode.
C26_TopLevelFinished ==
    /\ top_kind # "EndIf"
    /\ status = "returned" => top_kind = "Finished"
    /\ (Iteration /\ prev_depth = 0 /\ prev_code \in EndIfCodes /\ WholeOpcode) =>
          LET before == top(prev_stack).codes
              kept == IF prev_code = 226 THEN else_codes(before, data, prev_at) ELSE before
          IN /\ status = "running"
             /\ depth = 0
             /\ cursor(stack) = prev_at + 8
             /\ top(stack).codes =
                   Append(kept, ResetAddressHigh_code(read_u16(data, prev_at + 4),
                                                      read_u16(data, prev_at + 6), prev_at))

\* a returned tree with an if closed at top level, then a stray E0 recorded
\* as ResetAddressHigh, then a further code
C26_Witness ==
    /\ status = "returned"
    /\ top_kind = "Finished"
    /\ Len(result) = 4
    /\ result[1].op = "IfStatement"
    /\ result[2].op = "ResetAddressHigh"
    /\ result[3].op = "ResetAddressHigh"
    /\ byte_at(data, result[3].at) = 224
    /\ result[4].op = "WriteAndFill32"

\* C27: the endif count never underflows: every ProcessedBlock::EndIf a
\* process_block call returned carries Infinite or Finite(x) with x >= 1, so
\* Finite(x - 1) is never computed from 0.
C27_EndIfCountPositive ==
    \A i \in 1..Len(endifs) :
        \/ endifs[i] = Infinite
        \/ endifs[i].kind = "Finite" /\ endifs[i].x >= 1 /\ decrement(endifs[i]).x >= 0

\* an E2 with count 0 inside two ifs went by, then an E2 with count 2 closed
\* both: Finite(2) was returned, then Finite(1)
C27_Witness ==
    /\ endifs = <<Finite(2), Finite(1)>>
    /\ depth = 0
    /\ \E i \in 1..Len(top(stack).codes) :
          LET c == top(stack).codes[i]
          IN /\ c.op = "ResetAddressHigh"
             /\ byte_at(data, c.at) = 226
             /\ byte_at(data, c.at + 3) = 2
             /\ byte_at(data, c.at - 8) = 226
             /\ byte_at(data, c.at - 5) = 0

(***************************************************************************)
(* Gecko register operations (arms 0x86 and 0x88)                          *)
(***************************************************************************)
\* an operation line: b0 is 0x86, 0x88 or one of the bytes masked to them
GeckoLine(b0, b1) == <<b0, b1, 0, 3, 0, 0, 0, 5>>

GeckoLines == {GeckoLine(134, 0), GeckoLine(134, 19), GeckoLine(134, 163),
               GeckoLine(135, 16), GeckoLine(150, 11), GeckoLine(136, 1),
               GeckoLine(136, 32), GeckoLine(136, 242), GeckoLine(137, 138),
               IfLine, E0Line, UnknownLine, JumpLine(102, 0, 0, 1)}

InitGecko == \E lines \in SeqsUpTo(GeckoLines, MaxGeckoLines) : wiird_codes(concat(lines))

SpecGecko == InitGecko /\ [][Next]_vars

GeckoOps == {"OperationGeckoRegisterDirectValue", "OperationGeckoRegister"}

\* the operation of an 0x86 / 0x88 code is Add when the high nibble of byte 1
\* of its opcode is 0, else Unknown of byte 1 with the low nibble cleared
ReachableOperation(code) ==
    LET b1 == byte_at(data, code.at + 1)
        o == code.operation
    IN /\ o.variant \in {"Add", "Unknown"}
       /\ o.variant = "Add" <=> b1 < 16
       /\ o.variant = "Unknown" =>
             /\ o.value \in {16 * k : k \in 1..15}
             /\ o.value = 16 * (b1 \div 16)

RECURSIVE OperationsReachable(_)
OperationsReachable(codes) ==
    \A i \in 1..Len(codes) :
        /\ codes[i].op \in GeckoOps => ReachableOperation(codes[i])
        /\ codes[i].op = "IfStatement" => OperationsReachable(codes[i].then_branch)

\* C28: reachable GeckoOperation values: every operation field of a decoded
\* tree is Add (high nibble of byte 1 is 0) or Unknown(v) with v in
\* {0x10, 0x20, .., 0xF0}; Mul, Or, And, Xor, the shifts, RotateLeft,
\* FloatAdd and FloatMul are never produced.
C28_GeckoOperations ==
    /\ \A j \in 1..Len(stack) : OperationsReachable(stack[j].codes)
    /\ OperationsReachable(result)

\* a returned tree with Add from byte 1 = 0x01, and Unknown(0x10) and
\* Unknown(0xA0) from opcodes whose byte 1 is 0x13 and 0xA3
C28_Witness ==
    /\ status = "returned"
    /\ Len(result) = 3
    /\ \E i \in 1..3 : /\ result[i].op = "OperationGeckoRegister"
                       /\ byte_at(data, result[i].at + 1) = 1
                       /\ result[i].operation.variant = "Add"
    /\ \E i \in 1..3 : /\ result[i].op = "OperationGeckoRegisterDirectValue"
                       /\ byte_at(data, result[i].at + 1) = 19
                       /\ result[i].operation = [variant |-> "Unknown", value |-> 16]
    /\ \E i \in 1..3 : /\ result[i].op = "OperationGeckoRegisterDirectValue"
                       /\ byte_at(data, result[i].at + 1) = 163
                       /\ result[i].operation = [variant |-> "Unknown", value |-> 160]

====
